---- MODULE Spec2Model ----
(***************************************************************************)
(* A model of download-pdfs.js, the resource acquisition engine of         *)
(* SolomonMoodle: the retry wrapper, the content sniffers, the candidate   *)
(* ranking and the per-resource main loop.                                 *)
(*                                                                         *)
(* Text is modelled as a sequence of segments.  A URL or a content-type is *)
(* a sequence of strings (its segments) and every substring the program    *)
(* searches for ('.pdf', '/pluginfile.php/', ...) is a sequence of whole   *)
(* segments, so that includes/endsWith/startsWith are computed by          *)
(* comparing sub-sequences.  Buffers are sequences of byte values.         *)
(***************************************************************************)
EXTENDS Integers, Sequences, FiniteSets, TLC

\* ---------------------------------------------------------------------
\* Bounds of the model
\* ---------------------------------------------------------------------
MaxUrls == 2
MaxRetriesCfg == 2
MaxBudget == 4
MaxRankIn == 5
MaxAssets == 1
MaxMirrorFiles == 3
MaxMirrorDepth == 2
MaxPriorDirs == 1

\* ---------------------------------------------------------------------
\* Text helpers (String.prototype.includes / startsWith / endsWith /
\* toLowerCase / trim on segment and byte sequences)
\* ---------------------------------------------------------------------
Min(a, b) == IF a <= b THEN a ELSE b

Includes(s, pat) ==
  \E i \in 1..(Len(s) - Len(pat) + 1) : SubSeq(s, i, i + Len(pat) - 1) = pat

StartsWith(s, pat) ==
  Len(s) >= Len(pat) /\ SubSeq(s, 1, Len(pat)) = pat

EndsWith(s, pat) ==
  Len(s) >= Len(pat) /\ SubSeq(s, Len(s) - Len(pat) + 1, Len(s)) = pat

LowerSeg(t) ==
  CASE t = ".PDF" -> ".pdf"
    [] t = ".ZIP" -> ".zip"
    [] t = "/Index.html" -> "/index.html"
    [] t = "PDF" -> "pdf"
    [] t = "Application/" -> "application/"
    [] OTHER -> t

ToLowerCase(s) == [i \in 1..Len(s) |-> LowerSeg(s[i])]

LowerByte(b) == IF b >= 65 /\ b <= 90 THEN b + 32 ELSE b

BytesToLower(buf) == [i \in 1..Len(buf) |-> LowerByte(buf[i])]

IsSpace(b) == b \in {9, 10, 11, 12, 13, 32}

RECURSIVE TrimLeft(_)
TrimLeft(buf) ==
  IF buf # <<>> /\ IsSpace(Head(buf)) THEN TrimLeft(Tail(buf)) ELSE buf

RECURSIVE TrimRight(_)
TrimRight(buf) ==
  IF buf # <<>> /\ IsSpace(buf[Len(buf)])
  THEN TrimRight(SubSeq(buf, 1, Len(buf) - 1))
  ELSE buf

Trim(buf) == TrimRight(TrimLeft(buf))

\* ---------------------------------------------------------------------
\* Block 4: retry wrapper.  A call of withRetries is the record rt:
\*   i        the loop counter
\*   retries  the budget
\*   lastErr  the last error caught (Undefined before the first catch)
\*   calls    how many times fn was invoked
\*   delays   the sleep() calls made, in milliseconds
\*   st       "call": fn is about to be invoked; "returned"; "thrown"
\*   value    the value returned
\* ---------------------------------------------------------------------
Undefined == "undefined"

BackoffMs == 300

RetryStart(retries) ==
  [i |-> 1, retries |-> retries, lastErr |-> Undefined, calls |-> 0,
   delays |-> <<>>, value |-> Undefined,
   st |-> IF 1 <= retries THEN "call" ELSE "thrown"]

RetryOnReturn(rt, v) ==
  [rt EXCEPT !.calls = @ + 1, !.value = v, !.st = "returned"]

\* Faulty variant: the delay does not grow with the attempt.
RetryOnThrowFlat(rt, e) ==
  [rt EXCEPT !.calls = @ + 1,
             !.lastErr = e,
             !.delays = Append(@, BackoffMs),
             !.i = @ + 1,
             !.st = IF rt.i + 1 <= rt.retries THEN "call" ELSE "thrown"]

\* Faulty variant: the first error is kept, not the last.
RetryOnThrowFirst(rt, e) ==
  [rt EXCEPT !.calls = @ + 1,
             !.lastErr = IF @ = Undefined THEN e ELSE @,
             !.delays = Append(@, BackoffMs * rt.i),
             !.i = @ + 1,
             !.st = IF rt.i + 1 <= rt.retries THEN "call" ELSE "thrown"]

RetryOnThrow(rt, e) ==
  [rt EXCEPT !.calls = @ + 1,
             !.lastErr = e,
             !.delays = Append(@, BackoffMs * rt.i),
             !.i = @ + 1,
             !.st = IF rt.i + 1 <= rt.retries THEN "call" ELSE "thrown"]

RetryThrown(rt) == rt.lastErr

\* ---------------------------------------------------------------------
\* Block 5: magic-byte detection
\* ---------------------------------------------------------------------
PdfMagic == <<37, 80, 68, 70, 45>>

\* Faulty variant: only '%PDF' is compared.
looksLikePDFShort(buf) ==
  Len(buf) >= 4 /\ SubSeq(buf, 1, 4) = SubSeq(PdfMagic, 1, 4)

looksLikePDF(buf) ==
  Len(buf) >= 5 /\ SubSeq(buf, 1, 5) = PdfMagic

\* Faulty variant: three bytes are enough.
looksLikeZIPThree(buf) ==
  IF Len(buf) < 3 THEN FALSE
  ELSE buf[1] = 80 /\ buf[2] = 75 /\ (buf[3] = 3 \/ buf[3] = 5 \/ buf[3] = 7)

looksLikeZIP(buf) ==
  IF Len(buf) < 4 THEN FALSE
  ELSE buf[1] = 80 /\ buf[2] = 75 /\ (buf[3] = 3 \/ buf[3] = 5 \/ buf[3] = 7)

SniffLen == 512

looksLikeHTML(buf) ==
  LET s == BytesToLower(Trim(SubSeq(buf, 1, Min(Len(buf), SniffLen))))
  IN  \/ StartsWith(s, <<60, 33, 100, 111, 99, 116, 121, 112, 101, 32, 104, 116, 109, 108>>)
      \/ StartsWith(s, <<60, 104, 116, 109, 108>>)
      \/ Includes(s, <<60, 104, 101, 97, 100>>)
      \/ Includes(s, <<60, 98, 111, 100, 121>>)

\* ---------------------------------------------------------------------
\* Block 6: candidate ranking
\* ---------------------------------------------------------------------
\* Faulty variant: the '.pdf' rule is tested before '.zip'.
scoreCandidatePdfFirst(urlStr) ==
  LET u == ToLowerCase(urlStr)
      isZip == Includes(u, <<".zip">>)
      isPdf == Includes(u, <<".pdf">>)
      isIndex == EndsWith(u, <<"/index.html">>) \/ Includes(u, <<"/index.html", "?">>)
      isPluginfile == Includes(u, <<"/pluginfile.php/">>)
      isForced == Includes(u, <<"forcedownload">>)
  IN  IF isPdf THEN 900 + (IF isPluginfile THEN 10 ELSE 0) + (IF isForced THEN 5 ELSE 0)
      ELSE IF isZip THEN 1000 + (IF isPluginfile THEN 10 ELSE 0)
      ELSE IF isIndex THEN 850 + (IF isPluginfile THEN 10 ELSE 0)
      ELSE IF isPluginfile THEN 700 + (IF isForced THEN 10 ELSE 0)
      ELSE 200

scoreCandidate(urlStr) ==
  LET u == ToLowerCase(urlStr)
      isZip == Includes(u, <<".zip">>)
      isPdf == Includes(u, <<".pdf">>)
      isIndex == EndsWith(u, <<"/index.html">>) \/ Includes(u, <<"/index.html", "?">>)
      isPluginfile == Includes(u, <<"/pluginfile.php/">>)
      isForced == Includes(u, <<"forcedownload">>)
  IN  IF isZip THEN 1000 + (IF isPluginfile THEN 10 ELSE 0)
      ELSE IF isPdf THEN 900 + (IF isPluginfile THEN 10 ELSE 0) + (IF isForced THEN 5 ELSE 0)
      ELSE IF isIndex THEN 850 + (IF isPluginfile THEN 10 ELSE 0)
      ELSE IF isPluginfile THEN 700 + (IF isForced THEN 10 ELSE 0)
      ELSE 200

Elems(s) == {s[i] : i \in 1..Len(s)}

\* Array.from(new Set(arr)): the first occurrence of each value, in order
RECURSIVE DedupFrom(_, _)
DedupFrom(s, seen) ==
  IF s = <<>> THEN <<>>
  ELSE IF Head(s) \in seen THEN DedupFrom(Tail(s), seen)
       ELSE <<Head(s)>> \o DedupFrom(Tail(s), seen \cup {Head(s)})

Dedup(s) == DedupFrom(s, {})

\* Array.prototype.sort((a, b) => b.score - a.score): a stable sort (Node 20),
\* computed as a stable insertion: x goes after every element that does not
\* compare greater than it.
RECURSIVE InsertByScore(_, _)
InsertByScore(sorted, x) ==
  IF sorted = <<>> THEN <<x>>
  ELSE IF x.score - Head(sorted).score > 0 THEN <<x>> \o sorted
       ELSE <<Head(sorted)>> \o InsertByScore(Tail(sorted), x)

\* Faulty variant: an unstable sort (ties are reversed).
RECURSIVE InsertByScoreUnstable(_, _)
InsertByScoreUnstable(sorted, x) ==
  IF sorted = <<>> THEN <<x>>
  ELSE IF x.score - Head(sorted).score >= 0 THEN <<x>> \o sorted
       ELSE <<Head(sorted)>> \o InsertByScoreUnstable(Tail(sorted), x)

RECURSIVE SortFrom(_, _)
SortFrom(acc, rest) ==
  IF rest = <<>> THEN acc
  ELSE SortFrom(InsertByScore(acc, Head(rest)), Tail(rest))

RECURSIVE SortFromUnstable(_, _)
SortFromUnstable(acc, rest) ==
  IF rest = <<>> THEN acc
  ELSE SortFromUnstable(InsertByScoreUnstable(acc, Head(rest)), Tail(rest))

SortByScoreUnstable(scored) == SortFromUnstable(<<>>, scored)

SortByScore(scored) == SortFrom(<<>>, scored)

IsTruthy(h) == h # <<>>

HasPdfInUrl(h) == Includes(ToLowerCase(h), <<".pdf">>)

\* Faulty variant: the PDF-only filter is not applied.
rankCandidatesNoFilter(candidates, downloadAll) ==
  LET deduped == Dedup(SelectSeq(candidates, IsTruthy))
      scored == [i \in 1..Len(deduped) |-> [href |-> deduped[i], score |-> scoreCandidate(deduped[i])]]
  IN  SortByScore(scored)

rankCandidates(candidates, downloadAll) ==
  LET deduped == Dedup(SelectSeq(candidates, IsTruthy))
      filtered == IF downloadAll THEN deduped ELSE SelectSeq(deduped, HasPdfInUrl)
      scored == [i \in 1..Len(filtered) |-> [href |-> filtered[i], score |-> scoreCandidate(filtered[i])]]
  IN  SortByScore(scored)

\* ---------------------------------------------------------------------
\* Block 7: browser-context fetch (preflight + full download)
\*
\* What the server does with one request is either Abort (the fetch is
\* aborted by the timeout or fails on the network, and throws) or a
\* response [ok, status, ct, cl, body]: ct is the content-type header, cl
\* the content-length header as its decimal digits (<<>> when the header
\* is absent) and body the bytes.
\* ---------------------------------------------------------------------
MAX_BYTES_DEFAULT == 200 * 1024 * 1024

PrefixLen == 256

Abort == [aborted |-> TRUE]

IsAbort(x) == "aborted" \in DOMAIN x

\* prefix: null / data: null
NoBytes == <<-1>>

CtPdf == <<"application/", "pdf">>
CtPdfUpper == <<"Application/", "PDF">>
CtZip == <<"application/", "zip">>
CtHtml == <<"text/", "html">>

PdfBody == <<37, 80, 68, 70, 45, 49>>
HtmlBody == <<10, 60, 72, 84, 77, 76, 62>>
ZipBody == <<80, 75, 3, 4>>
NearPdfBody == <<37, 80, 68, 70, 32, 49>>

\* 209715201: one byte over the cap
DigitsOver == <<2, 0, 9, 7, 1, 5, 2, 0, 1>>

\* 209715199: one byte under the cap
DigitsUnder == <<2, 0, 9, 7, 1, 5, 1, 9, 9>>

R_pdf == [ok |-> TRUE, status |-> 200, ct |-> CtPdf, cl |-> <<6>>, body |-> PdfBody]
R_near == [ok |-> TRUE, status |-> 200, ct |-> CtPdfUpper, cl |-> <<>>, body |-> NearPdfBody]
R_login == [ok |-> TRUE, status |-> 200, ct |-> CtHtml, cl |-> <<>>, body |-> HtmlBody]
R_zip == [ok |-> TRUE, status |-> 200, ct |-> CtZip, cl |-> <<4>>, body |-> ZipBody]
R_big == [ok |-> TRUE, status |-> 200, ct |-> CtPdf, cl |-> DigitsOver, body |-> PdfBody]
R_404 == [ok |-> FALSE, status |-> 404, ct |-> CtHtml, cl |-> <<>>, body |-> HtmlBody]
R_under == [ok |-> TRUE, status |-> 200, ct |-> CtPdf, cl |-> DigitsUnder, body |-> PdfBody]

\* what the server may answer to a request
Responses == {R_pdf, R_near, R_login, R_zip, R_big, R_404, R_under}

\* One doFetch of preflight: a HEAD request reads no body.
doFetch(resp, method) ==
  [ok |-> resp.ok, status |-> resp.status, ct |-> resp.ct, cl |-> resp.cl,
   prefix |-> IF method = "HEAD" THEN NoBytes
              ELSE SubSeq(resp.body, 1, Min(Len(resp.body), PrefixLen))]

PreflightFailed ==
  [ok |-> FALSE, status |-> 0, ct |-> <<>>, cl |-> <<>>, prefix |-> NoBytes]

\* Faulty variant: with both attempts failed, the status of the HEAD answer
\* is kept.
preflightKeepsHead(head, get) ==
  IF ~IsAbort(head) /\ head.ok THEN doFetch(head, "HEAD")
  ELSE IF ~IsAbort(get) /\ get.ok THEN doFetch(get, "GET")
  ELSE IF ~IsAbort(head) THEN doFetch(head, "HEAD")
  ELSE PreflightFailed

\* preflight(page, fileUrl): head and get are what the server does with the
\* HEAD request and with the ranged GET request.
preflight(head, get) ==
  IF ~IsAbort(head) /\ head.ok THEN doFetch(head, "HEAD")
  ELSE IF ~IsAbort(get) THEN doFetch(get, "GET")
  ELSE PreflightFailed

\* Faulty variant: the body is read whatever the status.
downloadFullAnyStatus(resp) ==
  [ok |-> TRUE, status |-> resp.status, ct |-> resp.ct, cl |-> resp.cl, data |-> resp.body]

\* downloadFull(page, fileUrl) on a response (an aborted fetch throws)
downloadFull(resp) ==
  IF ~resp.ok
  THEN [ok |-> FALSE, status |-> resp.status, ct |-> resp.ct, cl |-> resp.cl, data |-> NoBytes]
  ELSE [ok |-> TRUE, status |-> resp.status, ct |-> resp.ct, cl |-> resp.cl, data |-> resp.body]

\* Number(cl) of a header: the value of its decimal digits, NaN when it holds
\* anything else (a character that is not a digit is its character code, 32
\* or more); an absent (empty) header is not parsed and gives NaN.
NaN == -1

RECURSIVE DigitsValue(_, _)
DigitsValue(ds, acc) ==
  IF ds = <<>> THEN acc ELSE DigitsValue(Tail(ds), acc * 10 + Head(ds))

ClNum(cl) ==
  IF cl # <<>> /\ \A i \in 1..Len(cl) : cl[i] \in 0..9 THEN DigitsValue(cl, 0) ELSE NaN

\* Faulty variant: a length that does not parse counts as over the cap.
OverCapUnparsed(cl, allowLarge) ==
  LET clNum == ClNum(cl)
  IN  ~allowLarge /\ (clNum = NaN \/ clNum > MAX_BYTES_DEFAULT)

\* Lines 50 and 574-575: MAX_BYTES is Infinity when ALLOW_LARGE is '1'; the
\* declared length is over the cap.
OverCap(cl, allowLarge) ==
  LET clNum == ClNum(cl)
  IN  clNum # NaN /\ ~allowLarge /\ clNum > MAX_BYTES_DEFAULT

\* ---------------------------------------------------------------------
\* Block 8: HTML package detection
\* ---------------------------------------------------------------------
IsDigits(t) == t \in {"1", "7"}

\* new URL(urlStr).pathname: the URL up to its query string
Pathname(u) ==
  IF \E i \in 1..Len(u) : u[i] = "?"
  THEN SubSeq(u, 1, (CHOOSE i \in 1..Len(u) : u[i] = "?" /\ \A j \in 1..(i - 1) : u[j] # "?") - 1)
  ELSE u

\* /\/pluginfile\.php\/\d+\/mod_resource\/content\/\d+\/index\.html$/i
isHtmlPackageIndex(urlStr) ==
  LET p == ToLowerCase(Pathname(urlStr))
      n == Len(p)
  IN  /\ n >= 5
      /\ p[n - 4] = "/pluginfile.php/"
      /\ IsDigits(p[n - 3])
      /\ p[n - 2] = "/mod_resource/content/"
      /\ IsDigits(p[n - 1])
      /\ p[n] = "/index.html"

\* ---------------------------------------------------------------------
\* Block 3: resource id and output paths.  A path of the output directory
\* is [rid, kind, base, n]: kind is what the file is, base the name taken
\* from the chosen URL and n the suffix that makes the name unique.
\* ---------------------------------------------------------------------
getResourceId(resourceUrl) ==
  IF \E i \in 1..(Len(resourceUrl) - 1) : resourceUrl[i] = "?id="
  THEN resourceUrl[(CHOOSE i \in 1..(Len(resourceUrl) - 1) : resourceUrl[i] = "?id=") + 1]
  ELSE "unknown"

Path(rid, kind, base, n) == [rid |-> rid, kind |-> kind, base |-> base, n |-> n]

\* Faulty variant: the suffix is the number of names already taken.
UniqueNCount(files, rid, kind, base) ==
  Cardinality({f \in files : f.rid = rid /\ f.kind = kind /\ f.base = base})

\* uniquePath / uniqueDir: the plain name when it is free, else the first
\* free suffix 1, 2, ...
UniqueN(files, rid, kind, base) ==
  CHOOSE n \in 0..Cardinality(files) :
    /\ Path(rid, kind, base, n) \notin files
    /\ \A m \in 0..(n - 1) : Path(rid, kind, base, m) \in files

\* ---------------------------------------------------------------------
\* Block 10: the decisions of the main runner
\* ---------------------------------------------------------------------
\* Faulty variant: the declared content-type is not looked at in PDF-only mode.
AcceptCandidateAnyType(href, pf, downloadAll, allowLarge) ==
  /\ pf.ok
  /\ ~(ClNum(pf.cl) # NaN /\ ~allowLarge /\ ClNum(pf.cl) > MAX_BYTES_DEFAULT)

\* Faulty variant: the size cap is not applied.
AcceptCandidateNoCap(href, pf, downloadAll, allowLarge) ==
  /\ pf.ok
  /\ downloadAll \/ Includes(ToLowerCase(pf.ct), <<"pdf">>)

\* Faulty variant: a '.zip' URL is only accepted when verified as a ZIP.
AcceptCandidateZipGate(href, pf, downloadAll, allowLarge) ==
  LET ctLower == ToLowerCase(pf.ct)
      clNum == ClNum(pf.cl)
      looksZipByUrl == Includes(ToLowerCase(href), <<".zip">>)
      zipBySig == IF pf.prefix # NoBytes THEN looksLikeZIP(pf.prefix) ELSE FALSE
      zipByCT == Includes(ctLower, <<"zip">>)
  IN  IF ~pf.ok THEN FALSE
      ELSE IF clNum # NaN /\ ~allowLarge /\ clNum > MAX_BYTES_DEFAULT THEN FALSE
      ELSE IF ~downloadAll THEN Includes(ctLower, <<"pdf">>)
      ELSE looksZipByUrl => (zipByCT \/ zipBySig)

\* Lines 571-594: whether the probed candidate is chosen.
AcceptCandidate(href, pf, downloadAll, allowLarge) ==
  LET ctLower == ToLowerCase(pf.ct)
      clNum == ClNum(pf.cl)
      looksZipByUrl == Includes(ToLowerCase(href), <<".zip">>)
      zipBySig == IF pf.prefix # NoBytes THEN looksLikeZIP(pf.prefix) ELSE FALSE
      zipByCT == Includes(ctLower, <<"zip">>)
  IN  IF ~pf.ok THEN FALSE
      ELSE IF OverCap(pf.cl, allowLarge) THEN FALSE
      ELSE IF ~downloadAll THEN Includes(ctLower, <<"pdf">>)
      ELSE IF looksZipByUrl /\ (zipByCT \/ zipBySig) THEN TRUE
      ELSE TRUE

\* Faulty variant: a package-index URL is mirrored whatever was retrieved.
ClassifyByUrl(chosen, full, downloadAll) ==
  LET ctLower == ToLowerCase(full.ct)
  IN  IF ~downloadAll /\ (~Includes(ctLower, <<"pdf">>) \/ ~looksLikePDF(full.data)) THEN "skip"
      ELSE IF downloadAll /\ isHtmlPackageIndex(chosen) THEN "mirror"
      ELSE "write"

\* Faulty variant: the magic bytes alone decide in PDF-only mode.
ClassifyMagicOnly(chosen, full, downloadAll) ==
  IF ~downloadAll /\ ~looksLikePDF(full.data) THEN "skip"
  ELSE IF downloadAll /\ isHtmlPackageIndex(chosen) /\ looksLikeHTML(full.data) THEN "mirror"
  ELSE "write"

\* Lines 617-631: what is done with the retrieved buffer.
Classify(chosen, full, downloadAll) ==
  LET ctLower == ToLowerCase(full.ct)
  IN  IF ~downloadAll /\ (~Includes(ctLower, <<"pdf">>) \/ ~looksLikePDF(full.data)) THEN "skip"
      ELSE IF downloadAll /\ isHtmlPackageIndex(chosen) /\ looksLikeHTML(full.data) THEN "mirror"
      ELSE "write"

\* Faulty variant: the loop does not break on the first accepted candidate.
SelectStepNoBreak(accepted, k, n) ==
  IF k < n THEN "continue" ELSE IF accepted THEN "break" ELSE "exhausted"

\* Lines 569-601: the for loop over ranked, after candidate k of n was probed.
SelectStep(accepted, k, n) ==
  IF accepted THEN "break" ELSE IF k < n THEN "continue" ELSE "exhausted"

\* Faulty variant: a mirrored package is counted as a saved file too.
CountFallThrough(s, counter) ==
  IF counter = "savedPackages"
  THEN [s EXCEPT !.savedPackages = @ + 1, !.savedFiles = @ + 1]
  ELSE [s EXCEPT ![counter] = @ + 1]

\* summary.<counter> += 1
Count(s, counter) == [s EXCEPT ![counter] = @ + 1]

\* ---------------------------------------------------------------------
\* The inputs of the model
\* ---------------------------------------------------------------------
U_pdf == <<"https://h", "/a", ".pdf">>
U_pdfForced == <<"https://h", "/pluginfile.php/", "7", "/b", ".PDF", "?", "forcedownload">>
U_zip == <<"https://h", "/pluginfile.php/", "7", "/c", ".ZIP">>
U_zipPdf == <<"https://h", "/d", ".zip", ".pdf">>
U_index == <<"https://h", "/pluginfile.php/", "7", "/mod_resource/content/", "1", "/index.html">>
U_plug == <<"https://h", "/pluginfile.php/", "7", "/e">>
U_other == <<"https://h", "/mod/url/view.php">>
U_other2 == <<"https://h", "/index.html", "/f">>

\* the links a resource page may expose
PageUrls == {U_pdf, U_pdfForced, U_zip, U_index}

\* the URLs rankCandidates is applied to
RankUrls == {U_zip, U_zipPdf, U_pdfForced, U_index, U_plug, U_other, U_other2}

R_resource == <<"https://h", "/mod/resource/", "view.php", "?id=", "7">>
R_page == <<"https://h", "/mod/page/", "view.php", "?id=", "7">>

\* line i of resource_urls.txt: page and resource activities alternate
UrlAt(i) == IF i % 2 = 1 THEN R_page ELSE R_resource

\* the input files: the first n lines, for every n up to MaxUrls
UrlFiles == {[i \in 1..n |-> UrlAt(i)] : n \in 0..MaxUrls}

SeqsUpTo(S, n) == UNION {[1..m -> S] : m \in 0..n}

\* what extractCandidatesFromPage can return (Array.from(new Set(out))):
\* the links of a resource page, in document order
CandLists ==
  { <<>>,
    <<U_pdf>>,
    <<U_zip>>,
    <<U_index>>,
    <<U_pdf, U_pdfForced>>,
    <<U_index, U_pdf>>,
    <<U_pdfForced, U_zip>>,
    <<U_index, U_pdf, U_pdfForced>> }

NetErrors == {"TimeoutError"}

Errors == {"TimeoutError", "ProtocolError", "AbortError"}

Values == {"v1", "v2"}

NoUrl == <<>>

NoPf == [ok |-> FALSE, status |-> -1, ct |-> <<>>, cl |-> <<>>, prefix |-> NoBytes]

NoFull == [ok |-> FALSE, status |-> -1, ct |-> <<>>, cl |-> <<>>, data |-> NoBytes]

NoOutcome == [counter |-> "none", stage |-> "none"]

ZeroSummary ==
  [processed |-> 0, savedFiles |-> 0, savedPackages |-> 0, skipped |-> 0, failed |-> 0]

\* ---------------------------------------------------------------------
\* State.  candidates, ranked, k, chosen, pf and full are the variables of
\* the body of the main loop: they hold a value from their assignment to
\* the end of the iteration (pf: to the end of the Preflight-Select loop).
\* probed, written and outcome record what the current iteration has done:
\* the candidates it has probed, the paths it has written, and the outcome
\* counter it has bumped together with the stage that bumped it.
\* ---------------------------------------------------------------------
VARIABLES
  DOWNLOAD_ALL,  \* process.env.DOWNLOAD_ALL === '1'
  MAX_RETRIES,   \* Number(process.env.MAX_RETRIES || 3)
  ALLOW_LARGE,   \* process.env.ALLOW_LARGE === '1' (MAX_BYTES = Infinity)
  urls,          \* the input URLs
  idx,           \* the position of the main loop in urls
  pc,            \* where the run is
  summary,       \* the run summary counters
  fs,            \* the paths that exist in OUTPUT_DIR
  rt,            \* the withRetries call in progress
  attempts,      \* what fn did at each invocation of the withRetries call
  candidates,    \* the candidates extracted for the current resource
  ranked,        \* rankCandidates(candidates)
  k,             \* the position of the Preflight-Select loop in ranked
  pf,            \* the result of the last probe
  chosen,        \* the chosen candidate
  full,          \* the result of downloadFull
  pkgRoot,       \* the suffix of the package root directory
  assetsLeft,    \* the items left in the Phase A queue
  probed,        \* the candidates probed so far, in order
  written,       \* the paths written for the current resource
  outcome,       \* the outcome of the current resource
  MIRROR_MAX_FILES,  \* Number(process.env.MIRROR_MAX_FILES || 2000)
  MIRROR_MAX_DEPTH,  \* Number(process.env.MIRROR_MAX_DEPTH || 8)
  content,       \* what the server holds: the references of each document
  queue,         \* the Phase A work queue of {ref, depth}
  visitedUrls,   \* the absolute URLs Phase A has visited
  savedFiles,    \* the local paths Phase A has written
  harvestedUrls, \* the response URLs Phase B has captured
  fetchLog,      \* the withRetries(fetchBinary) calls made, in order
  writeLog,      \* the asset files written, in order
  harvestPages,  \* the harvest pages that are open: the package each writes to
  args,          \* the arguments of a function applied on its own
  result,        \* what that application returned or threw
  pending,       \* the Phase B handlers that await resp.buffer(), by response URL
  cookieCalls,   \* the calls of page.setCookie made, in order
  cookieFile,    \* what cookies.json holds
  backupFile     \* what cookies.json.bak holds

cfgVars == <<DOWNLOAD_ALL, MAX_RETRIES, ALLOW_LARGE, urls>>
locVars == <<candidates, ranked, k, pf, chosen, full, pkgRoot, assetsLeft, probed>>
mirrorVars == <<MIRROR_MAX_FILES, MIRROR_MAX_DEPTH, content, queue, visitedUrls, savedFiles,
                harvestedUrls, fetchLog, writeLog, pending>>
vars == <<DOWNLOAD_ALL, MAX_RETRIES, ALLOW_LARGE, urls, idx, pc, summary, fs, rt,
          attempts, candidates, ranked, k, pf, chosen, full, pkgRoot, assetsLeft,
          probed, written, outcome, MIRROR_MAX_FILES, MIRROR_MAX_DEPTH, content, queue,
          visitedUrls, savedFiles, harvestedUrls, fetchLog, writeLog, harvestPages,
          args, result, pending, cookieCalls, cookieFile, backupFile>>
fnVars == <<args, result>>
cookieVars == <<cookieCalls, cookieFile, backupFile>>

NoContent == [seed |-> <<>>, body |-> <<>>, runtime |-> {}]

\* No package is being mirrored in detail.
MirrorIdle ==
  /\ MIRROR_MAX_FILES = 0
  /\ MIRROR_MAX_DEPTH = 0
  /\ content = NoContent
  /\ queue = <<>>
  /\ visitedUrls = {}
  /\ savedFiles = {}
  /\ harvestedUrls = {}
  /\ fetchLog = <<>>
  /\ writeLog = <<>>
  /\ pending = <<>>

\* No function is applied on its own.
NoArgs == [fn |-> "none"]

NoResult == [kind |-> "none"]

FnIdle ==
  /\ args = NoArgs
  /\ result = NoResult

\* A JSON value: its JavaScript type and its text.
Str(text) == <<"string", text>>
Bool(text) == <<"boolean", text>>

\* An element of a JSON array: an object (a record of JSON values) or null.
Obj(o) == [t |-> "object", o |-> o]
JsNull == [t |-> "null", o |-> <<>>]

\* The content of cookies.json or of its backup: a file that does not
\* exist, text that is not JSON, a JSON value that is not an array, or an
\* array with its elements.
Missing == [kind |-> "missing", list |-> <<>>]
NotJson == [kind |-> "invalid", list |-> <<>>]
NotArray == [kind |-> "object", list |-> <<>>]
JsonArray(list) == [kind |-> "array", list |-> list]

\* the session cookie of a sanitized export
SessionCookie ==
  Obj([name |-> Str("MoodleSession"), value |-> Str("s3cr3t"), domain |-> Str("h"),
       path |-> Str("/"), secure |-> Bool("true")])

\* the cookie files a run of the downloader may find
RunCookieFiles == {Missing, NotJson, JsonArray(<<SessionCookie>>)}

\* Faulty variant: the cookies are read and not handed to the page.
setCookieSkipped(calls, cookies) == calls

\* Line 533: page.setCookie(...cookies); calls records each call
setCookie(calls, cookies) == Append(calls, cookies)

\* No cookie file is looked at.
CookiesIdle ==
  /\ cookieCalls = <<>>
  /\ cookieFile = Missing
  /\ backupFile = Missing

LocalsIdle ==
  /\ candidates = <<>>
  /\ ranked = <<>>
  /\ k = 0
  /\ pf = NoPf
  /\ chosen = NoUrl
  /\ full = NoFull
  /\ pkgRoot = 0
  /\ assetsLeft = 0
  /\ probed = <<>>

Init ==
  /\ DOWNLOAD_ALL \in BOOLEAN
  /\ MAX_RETRIES \in 0..MaxRetriesCfg
  /\ ALLOW_LARGE \in BOOLEAN
  /\ urls \in UrlFiles
  /\ idx = 0
  /\ pc = "start"
  /\ summary = ZeroSummary
  /\ fs = {}
  /\ rt = RetryStart(MAX_RETRIES)
  /\ attempts = <<>>
  /\ LocalsIdle
  /\ written = {}
  /\ outcome = NoOutcome
  /\ MirrorIdle
  /\ harvestPages = {}
  /\ FnIdle
  /\ cookieCalls = <<>>
  /\ cookieFile \in RunCookieFiles
  /\ backupFile = Missing

\* ---------------------------------------------------------------------
\* Block 10: main runner
\* ---------------------------------------------------------------------
rid == getResourceId(urls[idx])

\* The variables of the loop body go out of scope.
DropLocals ==
  /\ candidates' = <<>>
  /\ ranked' = <<>>
  /\ k' = 0
  /\ pf' = NoPf
  /\ chosen' = NoUrl
  /\ full' = NoFull
  /\ pkgRoot' = 0
  /\ assetsLeft' = 0
  /\ probed' = <<>>

\* The end of one iteration of the for loop: an outcome counter is bumped
\* and the loop goes on (continue, or the end of the try block).
EndIteration(counter, stage) ==
  /\ summary' = Count(summary, counter)
  /\ outcome' = [counter |-> counter, stage |-> stage]
  /\ pc' = "loop"
  /\ rt' = RetryStart(MAX_RETRIES)
  /\ DropLocals

\* Lines 667-670: the catch block.  Reading err.message of the value thrown
\* by withRetries with an empty budget (undefined) raises a TypeError inside
\* the catch block: the async runner rejects and the loop is abandoned.
CatchErr(err, stage) ==
  /\ summary' = Count(summary, "failed")
  /\ outcome' = [counter |-> "failed", stage |-> stage]
  /\ pc' = IF err = Undefined THEN "crashed" ELSE "loop"
  /\ rt' = RetryStart(MAX_RETRIES)
  /\ DropLocals

\* Lines 518-533: the runner starts.  Without cookies.json the process
\* exits; the browser is launched, the file is parsed and its cookies are
\* handed to the page.  A file that is not a JSON array, a failed launch
\* or a cookie that the browser refuses makes the runner reject before
\* the loop.
Launch ==
  /\ pc = "start"
  /\ IF cookieFile.kind = "missing"
     THEN /\ pc' = "exited"
          /\ UNCHANGED cookieCalls
     ELSE \/ /\ cookieFile.kind = "array"
             /\ cookieCalls' = setCookie(cookieCalls, cookieFile.list)
             /\ pc' = "loop"
          \/ /\ pc' = "aborted"
             /\ UNCHANGED cookieCalls
  /\ UNCHANGED <<cfgVars, mirrorVars, fnVars, cookieFile, backupFile, harvestPages, idx, summary,
                 fs, rt, attempts, locVars, written, outcome>>

\* Lines 535-542: the next input URL is taken.
LoopNext ==
  /\ pc = "loop"
  /\ idx < Len(urls)
  /\ idx' = idx + 1
  /\ summary' = Count(summary, "processed")
  /\ written' = {}
  /\ outcome' = NoOutcome
  /\ rt' = RetryStart(MAX_RETRIES)
  /\ pc' = "goto"
  /\ UNCHANGED <<cfgVars, mirrorVars, fnVars, cookieVars, harvestPages, fs, attempts, locVars>>

\* Line 673: the loop is over.
LoopEnd ==
  /\ pc = "loop"
  /\ idx = Len(urls)
  /\ pc' = "done"
  /\ UNCHANGED <<cfgVars, mirrorVars, fnVars, cookieVars, harvestPages, idx, summary, fs, rt, attempts, locVars, written, outcome>>

\* An invocation of fn by withRetries throws.
FnThrows(site, errs) ==
  /\ pc = site
  /\ rt.st = "call"
  /\ \E e \in errs : rt' = RetryOnThrow(rt, e)
  /\ UNCHANGED <<cfgVars, mirrorVars, fnVars, cookieVars, harvestPages, idx, pc, summary, fs, attempts, locVars, written, outcome>>

\* withRetries has thrown: the catch block of the main loop runs.
RetryExhausted ==
  /\ pc \in {"goto", "preflight", "download", "mirrorA", "harvest"}
  /\ rt.st = "thrown"
  /\ CatchErr(RetryThrown(rt), pc)
  /\ UNCHANGED <<cfgVars, mirrorVars, fnVars, cookieVars, harvestPages, idx, fs, attempts, written>>

\* Line 542: page.goto
GotoThrows == FnThrows("goto", NetErrors)

GotoReturns ==
  /\ pc = "goto"
  /\ rt.st = "call"
  /\ rt' = RetryOnReturn(rt, "response")
  /\ pc' = "extract"
  /\ UNCHANGED <<cfgVars, mirrorVars, fnVars, cookieVars, harvestPages, idx, summary, fs, attempts, locVars, written, outcome>>

\* Line 544: extractCandidatesFromPage throws (page.evaluate fails).
ExtractThrows ==
  /\ pc = "extract"
  /\ CatchErr("ProtocolError", "extract")
  /\ UNCHANGED <<cfgVars, mirrorVars, fnVars, cookieVars, harvestPages, idx, fs, attempts, written>>

\* The snapshot is never written.
SnapshotDoneNever(failAt, wantMain, pagePath, mainPath) == {}

\* Faulty variant: the main region is saved in place of the page.
SnapshotDoneMainOnly(failAt, wantMain, pagePath, mainPath) ==
  IF failAt = "page" THEN {}
  ELSE IF wantMain /\ failAt = "none" THEN {mainPath}
  ELSE {pagePath}

\* Lines 547-554: the files the zero-candidate fallback has written when it
\* ends: <id>-page.html first, then <id>-page-main.html for a /mod/page/
\* page whose main region is found.  failAt is the write that throws.
SnapshotDone(failAt, wantMain, pagePath, mainPath) ==
  IF failAt = "page" THEN {}
  ELSE IF wantMain /\ failAt = "none" THEN {pagePath, mainPath}
  ELSE {pagePath}

\* Lines 545-558: no candidate; the page is saved instead.  failAt is the
\* write that throws ("none": no write throws); mainHtml is whether the
\* main region of a /mod/page/ page is found.
ExtractNone ==
  /\ pc = "extract"
  /\ \E failAt \in {"page", "main", "none"}, mainHtml \in BOOLEAN :
       LET pagePath == Path(rid, "page", <<>>, 0)
           mainPath == Path(rid, "pagemain", <<>>, 0)
           wantMain == Includes(urls[idx], <<"/mod/page/">>) /\ mainHtml
           done == SnapshotDone(failAt, wantMain, pagePath, mainPath)
       IN  /\ failAt = "main" => wantMain
           /\ fs' = fs \cup done
           /\ written' = written \cup done
           /\ IF failAt = "none"
              THEN EndIteration("skipped", "extract")
              ELSE CatchErr("EACCES", "extract")
  /\ UNCHANGED <<cfgVars, mirrorVars, fnVars, cookieVars, harvestPages, idx, attempts>>

\* Lines 544, 560: candidates are found and ranked.
ExtractSome ==
  /\ pc = "extract"
  /\ \E c \in CandLists \ {<<>>} :
       /\ candidates' = c
       /\ ranked' = rankCandidates(c, DOWNLOAD_ALL)
  /\ pc' = "rank"
  /\ UNCHANGED <<cfgVars, mirrorVars, fnVars, cookieVars, harvestPages, idx, summary, fs, rt, attempts, k, pf, chosen, full, pkgRoot,
                 assetsLeft, probed, written, outcome>>

\* Lines 561-565: nothing is left after ranking.
RankEmpty ==
  /\ pc = "rank"
  /\ ranked = <<>>
  /\ EndIteration("skipped", "rank")
  /\ UNCHANGED <<cfgVars, mirrorVars, fnVars, cookieVars, harvestPages, idx, fs, attempts, written>>

\* Lines 567-570: the Preflight-Select loop is entered.
RankSome ==
  /\ pc = "rank"
  /\ ranked # <<>>
  /\ pc' = "preflight"
  /\ k' = 1
  /\ rt' = RetryStart(MAX_RETRIES)
  /\ UNCHANGED <<cfgVars, mirrorVars, fnVars, cookieVars, harvestPages, idx, summary, fs, attempts, candidates, ranked, pf, chosen,
                 full, pkgRoot, assetsLeft, probed, written, outcome>>

\* Line 570: preflight throws (page.evaluate fails).
PreflightThrows ==
  /\ pc = "preflight"
  /\ rt.st = "call"
  /\ \E e \in NetErrors : rt' = RetryOnThrow(rt, e)
  /\ probed' = IF rt.calls = 0 THEN Append(probed, ranked[k].href) ELSE probed
  /\ UNCHANGED <<cfgVars, mirrorVars, fnVars, cookieVars, harvestPages, idx, pc, summary, fs, attempts, candidates, ranked, k, pf,
                 chosen, full, pkgRoot, assetsLeft, written, outcome>>

\* Lines 569-601: the probe of candidate k returns.  The GET request is
\* only made when the HEAD request failed.
PreflightReturns ==
  /\ pc = "preflight"
  /\ rt.st = "call"
  /\ \E head \in Responses \cup {Abort}, get \in Responses \cup {Abort} :
       LET href == ranked[k].href
           res == preflight(head, get)
           accepted == AcceptCandidate(href, res, DOWNLOAD_ALL, ALLOW_LARGE)
           step == SelectStep(accepted, k, Len(ranked))
       IN  /\ (~IsAbort(head) /\ head.ok) => get = Abort
           /\ pf' = res
           /\ probed' = IF rt.calls = 0 THEN Append(probed, href) ELSE probed
           /\ chosen' = IF accepted THEN href ELSE chosen
           /\ k' = IF step = "continue" THEN k + 1 ELSE k
           /\ pc' = IF step = "continue" THEN "preflight" ELSE "selected"
  /\ rt' = RetryStart(MAX_RETRIES)
  /\ UNCHANGED <<cfgVars, mirrorVars, fnVars, cookieVars, harvestPages, idx, summary, fs, attempts, candidates, ranked, full, pkgRoot,
                 assetsLeft, written, outcome>>

\* Lines 597-601: no candidate passed.
SelectedNone ==
  /\ pc = "selected"
  /\ chosen = NoUrl
  /\ EndIteration("skipped", "select")
  /\ UNCHANGED <<cfgVars, mirrorVars, fnVars, cookieVars, harvestPages, idx, fs, attempts, written>>

\* Lines 603-610: a candidate was chosen; it is retrieved.
SelectedSome ==
  /\ pc = "selected"
  /\ chosen # NoUrl
  /\ pc' = "download"
  /\ pf' = NoPf
  /\ rt' = RetryStart(MAX_RETRIES)
  /\ UNCHANGED <<cfgVars, mirrorVars, fnVars, cookieVars, harvestPages, idx, summary, fs, attempts, candidates, ranked, k, chosen,
                 full, pkgRoot, assetsLeft, probed, written, outcome>>

\* Line 610: downloadFull throws (the fetch is aborted).
DownloadThrows == FnThrows("download", NetErrors)

\* Line 610: downloadFull returns.
DownloadReturns ==
  /\ pc = "download"
  /\ rt.st = "call"
  /\ \E resp \in Responses : full' = downloadFull(resp)
  /\ rt' = RetryOnReturn(rt, "full")
  /\ pc' = "retrieved"
  /\ UNCHANGED <<cfgVars, mirrorVars, fnVars, cookieVars, harvestPages, idx, summary, fs, attempts, candidates, ranked, k, pf, chosen,
                 pkgRoot, assetsLeft, probed, written, outcome>>

\* Lines 611-615: the retrieval returned a failure result.
RetrievedNotOk ==
  /\ pc = "retrieved"
  /\ ~full.ok
  /\ EndIteration("failed", "retrieve")
  /\ UNCHANGED <<cfgVars, mirrorVars, fnVars, cookieVars, harvestPages, idx, fs, attempts, written>>

\* Lines 620-625: the retrieved buffer is not a real PDF.
ClassifySkip ==
  /\ pc = "retrieved"
  /\ full.ok
  /\ Classify(chosen, full, DOWNLOAD_ALL) = "skip"
  /\ EndIteration("skipped", "classify")
  /\ UNCHANGED <<cfgVars, mirrorVars, fnVars, cookieVars, harvestPages, idx, fs, attempts, written>>

\* The sidecar is taken as written when only the content file is.
WriteDoneNoMeta(failAt, outPath, metaPath) ==
  IF failAt = "file" THEN {} ELSE {outPath}

\* Lines 650-660: the files the direct write has written when it ends: the
\* content file first, then its .meta.json sidecar.  failAt is the write
\* that throws.
WriteDone(failAt, outPath, metaPath) ==
  IF failAt = "file" THEN {}
  ELSE IF failAt = "meta" THEN {outPath}
  ELSE {outPath, metaPath}

\* Lines 633-666: the buffer is saved with its metadata.  failAt is the
\* write that throws ("none": no write throws).
ClassifyWrite ==
  /\ pc = "retrieved"
  /\ full.ok
  /\ Classify(chosen, full, DOWNLOAD_ALL) = "write"
  /\ \E failAt \in {"file", "meta", "none"} :
       LET n == UniqueN(fs, rid, "file", chosen)
           outPath == Path(rid, "file", chosen, n)
           metaPath == Path(rid, "meta", chosen, n)
           done == WriteDone(failAt, outPath, metaPath)
       IN  /\ fs' = fs \cup done
           /\ written' = written \cup done
           /\ IF failAt = "none"
              THEN EndIteration("savedFiles", "write")
              ELSE CatchErr("EACCES", "write")
  /\ UNCHANGED <<cfgVars, mirrorVars, fnVars, cookieVars, harvestPages, idx, attempts>>

\* Lines 627-631 and 372-390: the package is entered; the root directory
\* and index.html are written and the queue is seeded.
ClassifyMirror ==
  /\ pc = "retrieved"
  /\ full.ok
  /\ Classify(chosen, full, DOWNLOAD_ALL) = "mirror"
  /\ \E failAt \in {"mkdir", "index", "none"}, seeds \in 0..MaxAssets :
       LET n == UniqueN(fs, rid, "pkgdir", <<>>)
           root == Path(rid, "pkgdir", <<>>, n)
           index == Path(rid, "pkgfile", <<"index.html">>, n)
           done == IF failAt = "mkdir" THEN {}
                   ELSE IF failAt = "index" THEN {root}
                   ELSE {root, index}
       IN  /\ fs' = fs \cup done
           /\ written' = written \cup done
           /\ IF failAt = "none"
              THEN /\ pc' = "mirrorA"
                   /\ pkgRoot' = n
                   /\ assetsLeft' = seeds
                   /\ rt' = RetryStart(MAX_RETRIES)
                   /\ UNCHANGED <<summary, outcome, candidates, ranked, k, pf, chosen,
                                  full, probed>>
              ELSE /\ seeds = 0
                   /\ CatchErr("EACCES", "mirror")
  /\ UNCHANGED <<cfgVars, mirrorVars, fnVars, cookieVars, harvestPages, idx, attempts>>

\* Line 416: fetchBinary throws (page.evaluate fails).
AssetThrows ==
  /\ assetsLeft > 0
  /\ FnThrows("mirrorA", NetErrors)

\* Lines 392-433: one item of the Phase A queue is fetched; a failed fetch
\* is passed over, a fetched asset is written.
AssetReturns ==
  /\ pc = "mirrorA"
  /\ rt.st = "call"
  /\ assetsLeft > 0
  /\ \E res \in {"notOk", "writeFails", "saved"} :
       LET asset == Path(rid, "pkgfile", <<"asset", ToString(assetsLeft)>>, pkgRoot)
           done == IF res = "saved" THEN {asset} ELSE {}
       IN  /\ fs' = fs \cup done
           /\ written' = written \cup done
           /\ IF res = "writeFails"
              THEN CatchErr("EACCES", "mirror")
              ELSE /\ assetsLeft' = assetsLeft - 1
                   /\ rt' = RetryStart(MAX_RETRIES)
                   /\ UNCHANGED <<pc, summary, outcome, candidates, ranked, k, pf, chosen,
                                  full, pkgRoot, probed>>
  /\ UNCHANGED <<cfgVars, mirrorVars, fnVars, cookieVars, harvestPages, idx, attempts>>

\* Lines 435-453: a harvest page writes what it captures under the root of
\* the package it was opened for.
HarvestPage(r, n) == [rid |-> r, n |-> n]

\* Lines 435-453: the queue is empty; the harvest page is opened and its
\* response listener is installed.
HarvestOpen ==
  /\ pc = "mirrorA"
  /\ rt.st = "call"
  /\ assetsLeft = 0
  /\ \/ /\ pc' = "harvest"
        /\ rt' = RetryStart(MAX_RETRIES)
        /\ harvestPages' = harvestPages \cup {HarvestPage(rid, pkgRoot)}
        /\ UNCHANGED <<summary, outcome, locVars>>
     \/ /\ CatchErr("ProtocolError", "mirror")
        /\ UNCHANGED harvestPages
  /\ UNCHANGED <<cfgVars, mirrorVars, fnVars, cookieVars, idx, fs, attempts, written>>

\* Line 455: harvestPage.goto throws.
HarvestThrows == FnThrows("harvest", NetErrors)

\* Lines 437-461: the harvest page loads; a response inside the base
\* directory is written during the harvest window, the page is closed and
\* the package is counted.
HarvestReturns ==
  /\ pc = "harvest"
  /\ rt.st = "call"
  /\ \E harvested \in SUBSET {Path(rid, "pkgfile", <<"asset", "1">>, pkgRoot)} :
       /\ fs' = fs \cup harvested
       /\ written' = written \cup harvested
  /\ harvestPages' = harvestPages \ {HarvestPage(rid, pkgRoot)}
  /\ EndIteration("savedPackages", "mirror")
  /\ UNCHANGED <<cfgVars, mirrorVars, fnVars, cookieVars, idx, attempts>>

\* Lines 437-455: harvestPage.close() is reached only when withRetries
\* returns; when it throws, the page stays open with its listener until
\* browser.close() (line 673), and a response that arrives meanwhile is
\* written under the package root of that page.
LateHarvestResponse ==
  /\ pc \notin {"start", "exited", "aborted", "done", "crashed"}
  /\ \E p \in harvestPages :
       LET late == Path(p.rid, "pkgfile", <<"asset", "1">>, p.n)
       IN  /\ pc = "harvest" => p # HarvestPage(rid, pkgRoot)
           /\ late \notin fs
           /\ fs' = fs \cup {late}
  /\ UNCHANGED <<cfgVars, mirrorVars, fnVars, cookieVars, harvestPages, idx, pc, summary, rt, attempts,
                 locVars, written, outcome>>

Next ==
  \/ Launch
  \/ LoopNext
  \/ LoopEnd
  \/ RetryExhausted
  \/ GotoThrows
  \/ GotoReturns
  \/ ExtractThrows
  \/ ExtractNone
  \/ ExtractSome
  \/ RankEmpty
  \/ RankSome
  \/ PreflightThrows
  \/ PreflightReturns
  \/ SelectedNone
  \/ SelectedSome
  \/ DownloadThrows
  \/ DownloadReturns
  \/ RetrievedNotOk
  \/ ClassifySkip
  \/ ClassifyWrite
  \/ ClassifyMirror
  \/ AssetThrows
  \/ AssetReturns
  \/ HarvestOpen
  \/ HarvestThrows
  \/ HarvestReturns
  \/ LateHarvestResponse

Spec == Init /\ [][Next]_vars

\* ---------------------------------------------------------------------
\* withRetries on its own: one call with a budget of 0..MaxBudget, of an
\* operation that throws any error or returns any value at each invocation.
\* ---------------------------------------------------------------------
InitRetry ==
  /\ DOWNLOAD_ALL = FALSE
  /\ MAX_RETRIES \in 0..MaxBudget
  /\ ALLOW_LARGE = FALSE
  /\ urls = <<>>
  /\ idx = 0
  /\ pc = "retry"
  /\ summary = ZeroSummary
  /\ fs = {}
  /\ rt = RetryStart(MAX_RETRIES)
  /\ attempts = <<>>
  /\ LocalsIdle
  /\ written = {}
  /\ outcome = NoOutcome
  /\ MirrorIdle
  /\ harvestPages = {}
  /\ FnIdle
  /\ CookiesIdle

RetryFnThrows ==
  /\ pc = "retry"
  /\ rt.st = "call"
  /\ \E e \in Errors :
       /\ rt' = RetryOnThrow(rt, e)
       /\ attempts' = Append(attempts, [kind |-> "throw", v |-> e])
  /\ UNCHANGED <<cfgVars, mirrorVars, fnVars, cookieVars, harvestPages, idx, pc, summary, fs, locVars, written, outcome>>

RetryFnReturns ==
  /\ pc = "retry"
  /\ rt.st = "call"
  /\ \E v \in Values :
       /\ rt' = RetryOnReturn(rt, v)
       /\ attempts' = Append(attempts, [kind |-> "return", v |-> v])
  /\ UNCHANGED <<cfgVars, mirrorVars, fnVars, cookieVars, harvestPages, idx, pc, summary, fs, locVars, written, outcome>>

NextRetry == RetryFnThrows \/ RetryFnReturns

SpecRetry == InitRetry /\ [][NextRetry]_vars

\* ---------------------------------------------------------------------
\* rankCandidates on its own: applied to any list of at most MaxRankIn
\* URLs, repetitions included, in both modes.
\* ---------------------------------------------------------------------
InitRank ==
  /\ DOWNLOAD_ALL \in BOOLEAN
  /\ MAX_RETRIES = 0
  /\ ALLOW_LARGE = FALSE
  /\ urls = <<>>
  /\ idx = 0
  /\ pc = "rank-in"
  /\ summary = ZeroSummary
  /\ fs = {}
  /\ rt = RetryStart(0)
  /\ attempts = <<>>
  /\ candidates \in SeqsUpTo(RankUrls, MaxRankIn)
  /\ ranked = <<>>
  /\ k = 0
  /\ pf = NoPf
  /\ chosen = NoUrl
  /\ full = NoFull
  /\ pkgRoot = 0
  /\ assetsLeft = 0
  /\ probed = <<>>
  /\ written = {}
  /\ outcome = NoOutcome
  /\ MirrorIdle
  /\ harvestPages = {}
  /\ FnIdle
  /\ CookiesIdle

RankApply ==
  /\ pc = "rank-in"
  /\ ranked' = rankCandidates(candidates, DOWNLOAD_ALL)
  /\ pc' = "rank-out"
  /\ UNCHANGED <<cfgVars, mirrorVars, fnVars, cookieVars, harvestPages, idx, summary, fs, rt, attempts, candidates, k, pf, chosen,
                 full, pkgRoot, assetsLeft, probed, written, outcome>>

NextRank == RankApply

SpecRank == InitRank /\ [][NextRank]_vars

\* ---------------------------------------------------------------------
\* Block 8: HTML package mirroring, in detail.  A reference is a sequence
\* of segments as a URL is; a document is the sequence of the references
\* its text holds (what the three patterns of extractRefsFromText match),
\* in text order.
\* ---------------------------------------------------------------------
Null == <<>>

\* new URL(..) throws
Invalid == <<"TypeError: Invalid URL">>

\* baseDirOf: origin + pathname up to and including its last slash.  The
\* last segment of a pathname is '/' followed by the file name.
baseDirOf(urlStr) ==
  LET p == Pathname(urlStr)
  IN  SubSeq(p, 1, Len(p) - 1) \o <<"/">>

\* the directory above a base directory <<..., name, "/">>
ParentDir(base) == SubSeq(base, 1, Len(base) - 2)

normalizeRelPath(ref) ==
  IF ref = <<>> THEN Null
  ELSE IF ref[1] \in {"data:", "blob:", "javascript:"} THEN Null
  ELSE ref

shouldIgnoreRef(ref) == LowerSeg(ref[1]) \in {"#", "mailto:", "tel:"}

\* Array.from(out): each reference of the text once, in order of first match
extractRefsFromText(text) == Dedup(text)

\* The text of a URL whose last segment is '/' followed by a file name,
\* segmented after that slash: base directory, then file name.
FileName(seg) ==
  CASE seg = "/index.html" -> "index.html"
    [] seg = "/Index.html" -> "Index.html"
    [] OTHER -> seg

SplitAtBase(urlStr) ==
  LET p == Pathname(urlStr)
  IN  baseDirOf(urlStr) \o <<FileName(p[Len(p)])>>

\* new URL(ref, entryUrl).toString(); a reference that is only a query
\* keeps the path of the entry URL.
Resolve(ref, entryUrl) ==
  IF ref[1] = "http://" THEN Invalid
  ELSE IF ref[1] \in {"https://h", "https://evil", "https://cdn", "DATA:"} THEN ref
  ELSE IF ref[1] = "/" THEN <<entryUrl[1]>> \o ref
  ELSE IF ref[1] = "?" THEN SplitAtBase(entryUrl) \o ref
  ELSE IF ref[1] = "./" THEN baseDirOf(entryUrl) \o Tail(ref)
  ELSE IF ref[1] = "../" THEN ParentDir(baseDirOf(entryUrl)) \o Tail(ref)
  ELSE baseDirOf(entryUrl) \o ref

RECURSIVE TakeUntil(_, _)
TakeUntil(s, stops) ==
  IF s = <<>> \/ Head(s) \in stops THEN <<>>
  ELSE <<Head(s)>> \o TakeUntil(Tail(s), stops)

RECURSIVE DropSlashes(_)
DropSlashes(s) ==
  IF s # <<>> /\ Head(s) = "/" THEN DropSlashes(Tail(s)) ELSE s

\* Faulty variant: every reference is stored as the entry document.
localPathForRefIndex(ref) == <<"index.html">>

\* localPathForRef(pkgDir, ref): the path below pkgDir, Null when empty
localPathForRef(ref) == DropSlashes(TakeUntil(TakeUntil(ref, {"#"}), {"?"}))

\* the content-type the server declares for a URL
CtCss == <<"text/", "css">>
CtJs == <<"application/", "javascript">>
CtJson == <<"application/", "json">>
CtPng == <<"image/", "png">>

CtOf(url) ==
  LET name == TakeUntil(TakeUntil(url, {"#"}), {"?"})
      last == IF name = <<>> THEN "" ELSE name[Len(name)]
  IN  CASE last \in {"a.css", "s.css"} -> CtCss
        [] last = "b.js" -> CtJs
        [] last = "c.html" -> CtHtml
        [] last = "d.json" -> CtJson
        [] OTHER -> CtPng

\* isText of the Phase A loop
IsTextType(ct) ==
  LET contentType == ToLowerCase(ct)
  IN  \/ Includes(contentType, <<"text/">>)
      \/ Includes(contentType, <<"javascript">>)
      \/ Includes(contentType, <<"json">>)

\* Lines 385-390: the seed items of the queue
SeedItems(entryText) ==
  LET refs == extractRefsFromText(entryText)
      Kept(ref) == normalizeRelPath(ref) # Null /\ ~shouldIgnoreRef(normalizeRelPath(ref))
      kept == SelectSeq(refs, Kept)
  IN  [i \in 1..Len(kept) |-> [ref |-> normalizeRelPath(kept[i]), depth |-> 1]]

\* Faulty variant: children are pushed at the maximal depth too.
ChildItemsOffByOne(text, isText, depth, maxDepth) ==
  IF isText /\ depth <= maxDepth
  THEN LET refs == extractRefsFromText(text)
           Kept(ref) == normalizeRelPath(ref) # Null /\ ~shouldIgnoreRef(normalizeRelPath(ref))
           kept == SelectSeq(refs, Kept)
       IN  [i \in 1..Len(kept) |-> [ref |-> normalizeRelPath(kept[i]), depth |-> depth + 1]]
  ELSE <<>>

\* Lines 423-432: the items pushed for a fetched asset
ChildItems(text, isText, depth, maxDepth) ==
  IF isText /\ depth < maxDepth
  THEN LET refs == extractRefsFromText(text)
           Kept(ref) == normalizeRelPath(ref) # Null /\ ~shouldIgnoreRef(normalizeRelPath(ref))
           kept == SelectSeq(refs, Kept)
       IN  [i \in 1..Len(kept) |-> [ref |-> normalizeRelPath(kept[i]), depth |-> depth + 1]]
  ELSE <<>>

\* Faulty variant: the visited set is not consulted.
DiscardReasonNoVisited(item, absolute, visited, baseDir, maxDepth) ==
  IF item.depth > maxDepth THEN "depth"
  ELSE IF absolute = Invalid THEN "invalid"
  ELSE IF ~StartsWith(absolute, baseDir) THEN "external"
  ELSE IF localPathForRef(SubSeq(absolute, Len(baseDir) + 1, Len(absolute))) = Null THEN "nopath"
  ELSE "none"

\* Faulty variant: the base directory is not checked.
DiscardReasonNoBase(item, absolute, visited, baseDir, maxDepth) ==
  IF item.depth > maxDepth THEN "depth"
  ELSE IF absolute = Invalid THEN "invalid"
  ELSE IF absolute \in visited THEN "visited"
  ELSE IF localPathForRef(SubSeq(absolute, Min(Len(baseDir), Len(absolute)) + 1, Len(absolute))) = Null
       THEN "nopath"
  ELSE "none"

\* Lines 394-413: why a dequeued item is passed over ("none": it is fetched)
DiscardReason(item, absolute, visited, baseDir, maxDepth) ==
  IF item.depth > maxDepth THEN "depth"
  ELSE IF absolute = Invalid THEN "invalid"
  ELSE IF ~StartsWith(absolute, baseDir) THEN "external"
  ELSE IF absolute \in visited THEN "visited"
  ELSE IF localPathForRef(SubSeq(absolute, Len(baseDir) + 1, Len(absolute))) = Null THEN "nopath"
  ELSE "none"

\* Faulty variant: the item taken stays at the head of the queue.
ShiftKeeps(q) == q

\* Line 393: what queue.shift() leaves in the queue
Shift(q) == Tail(q)

\* Faulty variant: the harvest may start while items are queued.
PhaseAContinuesShort(q, saved, maxFiles) ==
  Len(q) > 1 /\ Cardinality(saved) < maxFiles

\* Line 392: while (queue.length && savedFiles.size < MIRROR_MAX_FILES)
PhaseAContinues(q, saved, maxFiles) ==
  q # <<>> /\ Cardinality(saved) < maxFiles

\* Faulty variant: the Phase B handler persists every response.
HarvestKeepsAll(url, baseDir, harvested) == url \notin harvested

\* Faulty variant: a response already captured is taken again.
HarvestKeepsAgain(url, baseDir, harvested) == StartsWith(url, baseDir)

\* Lines 440-441: whether the Phase B handler goes on with a response
HarvestKeeps(url, baseDir, harvested) ==
  StartsWith(url, baseDir) /\ url \notin harvested

\* ---------------------------------------------------------------------
\* The packages of the model.  Base is the base directory of U_index.
\* ---------------------------------------------------------------------
Base == <<"https://h", "/pluginfile.php/", "7", "/mod_resource/content/", "1", "/">>

Ref_a == <<"a.css">>
Ref_aV1 == <<"a.css", "?", "v=1">>
Ref_aV2 == <<"a.css", "?", "v=2">>
Ref_b == <<"b.js">>
Ref_bAbs == Base \o <<"b.js">>
Ref_c == <<"c.html">>
Ref_d == <<"d.json">>
Ref_up == <<"../", "x.js">>
Ref_ext == <<"https://evil", "/", "y.js">>
Ref_root == <<"/", "z.js">>
Ref_hash == <<"#", "top">>
Ref_data == <<"data:", "image/png;base64,AAAA">>
Ref_dataUpper == <<"DATA:", "image/png;base64,AAAA">>
Ref_bad == <<"http://", "[">>
Ref_sCss == <<"css/", "s.css">>
Ref_bg == <<"bg.png">>
Ref_self == <<"?", "lang=en">>
Ref_dot == <<"./">>

\* repeated references and a cycle
SiteCycle ==
  [seed |-> <<Ref_a, Ref_b, Ref_a>>,
   body |-> (Base \o Ref_a :> <<Ref_b, Ref_a, Ref_c>>) @@ (Base \o Ref_c :> <<Ref_a, Ref_bAbs>>),
   runtime |-> {Base \o Ref_b, <<"https://cdn", "/", "lib.js">>}]

\* references that differ only in their query string
SiteQuery ==
  [seed |-> <<Ref_aV1, Ref_aV2, Ref_a, Ref_b>>,
   body |-> (Base \o Ref_aV1 :> <<Ref_hash, Ref_self>>),
   runtime |-> {Base \o Ref_aV1}]

\* references that leave the base directory or are not fetchable
SiteEscape ==
  [seed |-> <<Ref_up, Ref_ext, Ref_root, Ref_hash, Ref_data, Ref_dataUpper, Ref_bad,
              Ref_dot, Ref_bAbs, Ref_b>>,
   body |-> (Base \o Ref_b :> <<Ref_up, Ref_ext>>),
   runtime |-> {ParentDir(Base) \o <<"x.js">>, Base \o Ref_d}]

\* a chain of documents, four levels deep
SiteDeep ==
  [seed |-> <<Ref_a>>,
   body |-> (Base \o Ref_a :> <<Ref_c>>) @@ (Base \o Ref_c :> <<Ref_d>>)
            @@ (Base \o Ref_d :> <<Ref_b>>),
   runtime |-> {}]

\* a style sheet in a subdirectory that references an image next to it
SiteSubdir ==
  [seed |-> <<Ref_sCss>>,
   body |-> (Base \o Ref_sCss :> <<Ref_bg>>),
   runtime |-> {}]

Sites == {SiteCycle, SiteQuery, SiteEscape, SiteDeep, SiteSubdir}

\* the text of the document at a URL
BodyOf(url) == IF url \in DOMAIN content.body THEN content.body[url] ELSE <<>>

\* ---------------------------------------------------------------------
\* mirrorHtmlPackage on its own: the package at U_index is mirrored for
\* resource 7, with any caps, any package above and any directories of
\* earlier packages in the output directory.
\* ---------------------------------------------------------------------
InitMirror ==
  /\ DOWNLOAD_ALL = TRUE
  /\ MAX_RETRIES = 3
  /\ ALLOW_LARGE = FALSE
  /\ urls = <<R_resource>>
  /\ idx = 1
  /\ pc = "m-enter"
  /\ summary = [ZeroSummary EXCEPT !.processed = 1]
  /\ \E prior \in SUBSET (0..MaxPriorDirs) :
       fs = {Path(getResourceId(R_resource), "pkgdir", <<>>, n) : n \in prior}
  /\ rt = RetryStart(MAX_RETRIES)
  /\ attempts = <<>>
  /\ candidates = <<U_index>>
  /\ ranked = rankCandidates(<<U_index>>, TRUE)
  /\ k = 1
  /\ pf = NoPf
  /\ chosen = U_index
  /\ full = NoFull
  /\ pkgRoot = 0
  /\ assetsLeft = 0
  /\ probed = <<U_index>>
  /\ written = {}
  /\ outcome = NoOutcome
  /\ MIRROR_MAX_FILES \in 0..MaxMirrorFiles
  /\ MIRROR_MAX_DEPTH \in 0..MaxMirrorDepth
  /\ content \in Sites
  /\ queue = <<>>
  /\ visitedUrls = {}
  /\ savedFiles = {}
  /\ harvestedUrls = {}
  /\ fetchLog = <<>>
  /\ writeLog = <<>>
  /\ pending = <<>>
  /\ harvestPages = {}
  /\ FnIdle
  /\ CookiesIdle

mirrorStatic == <<DOWNLOAD_ALL, MAX_RETRIES, ALLOW_LARGE, urls, idx, rt, attempts, candidates,
                  ranked, k, pf, chosen, full, assetsLeft, probed, MIRROR_MAX_FILES,
                  MIRROR_MAX_DEPTH, content, harvestPages, args, result, cookieVars>>

\* Lines 372-390: the package root and index.html are written, the queue is
\* seeded.
MirrorEnter ==
  /\ pc = "m-enter"
  /\ LET n == UniqueN(fs, rid, "pkgdir", <<>>)
         root == Path(rid, "pkgdir", <<>>, n)
         index == Path(rid, "pkgfile", <<"index.html">>, n)
     IN  /\ pkgRoot' = n
         /\ fs' = fs \cup {root, index}
         /\ written' = {root, index}
  /\ queue' = SeedItems(content.seed)
  /\ pc' = "m-A"
  /\ UNCHANGED <<mirrorStatic, summary, outcome, visitedUrls, savedFiles, harvestedUrls,
                 fetchLog, writeLog, pending>>

\* Lines 392-433: one iteration of the Phase A loop.  res is what
\* withRetries(fetchBinary) does: it throws, or returns a failure or the
\* asset.
MirrorPhaseA ==
  /\ pc = "m-A"
  /\ PhaseAContinues(queue, savedFiles, MIRROR_MAX_FILES)
  /\ \E item \in {Head(queue)}, baseDir \in {baseDirOf(chosen)} :
     \E absolute \in {Resolve(item.ref, chosen)} :
     \E why \in {DiscardReason(item, absolute, visitedUrls, baseDir, MIRROR_MAX_DEPTH)} :
         IF why \in {"depth", "invalid", "external", "visited"}
         THEN /\ queue' = Shift(queue)
              /\ UNCHANGED <<pc, summary, outcome, fs, written, visitedUrls, savedFiles,
                             fetchLog, writeLog>>
         ELSE IF why = "nopath"
         THEN /\ queue' = Shift(queue)
              /\ visitedUrls' = visitedUrls \cup {absolute}
              /\ UNCHANGED <<pc, summary, outcome, fs, written, savedFiles, fetchLog, writeLog>>
         ELSE /\ visitedUrls' = visitedUrls \cup {absolute}
              /\ \/ /\ fetchLog' = Append(fetchLog, [url |-> absolute, depth |-> item.depth,
                                                    ok |-> FALSE])
                    /\ queue' = Shift(queue)
                    /\ \/ /\ MAX_RETRIES >= 1
                          /\ UNCHANGED <<pc, summary, outcome>>
                       \/ /\ pc' = "m-failed"
                          /\ summary' = Count(summary, "failed")
                          /\ outcome' = [counter |-> "failed", stage |-> "mirror"]
                    /\ UNCHANGED <<fs, written, savedFiles, writeLog>>
                 \/ /\ MAX_RETRIES >= 1
                    /\ fetchLog' = Append(fetchLog, [url |-> absolute, depth |-> item.depth,
                                                    ok |-> TRUE])
                    /\ \E localPath \in {Path(rid, "pkgfile",
                               localPathForRef(SubSeq(absolute, Len(baseDir) + 1, Len(absolute))),
                               pkgRoot)},
                          isText \in {IsTextType(CtOf(absolute))} :
                        /\ fs' = fs \cup {localPath}
                        /\ written' = written \cup {localPath}
                        /\ savedFiles' = savedFiles \cup {localPath}
                        /\ writeLog' = Append(writeLog, [phase |-> "A", url |-> absolute,
                                                         path |-> localPath])
                        /\ queue' = Shift(queue) \o ChildItems(BodyOf(absolute), isText,
                                                             item.depth, MIRROR_MAX_DEPTH)
                    /\ UNCHANGED <<pc, summary, outcome>>
  /\ UNCHANGED <<mirrorStatic, pkgRoot, harvestedUrls, pending>>

\* Lines 435-455: Phase A is over; the harvest page is opened and loaded,
\* or opening or loading it throws.
MirrorHarvestOpen ==
  /\ pc = "m-A"
  /\ ~PhaseAContinues(queue, savedFiles, MIRROR_MAX_FILES)
  /\ \/ /\ MAX_RETRIES >= 1
        /\ pc' = "m-B"
        /\ UNCHANGED <<summary, outcome>>
     \/ /\ pc' = "m-failed"
        /\ summary' = Count(summary, "failed")
        /\ outcome' = [counter |-> "failed", stage |-> "mirror"]
  /\ UNCHANGED <<mirrorStatic, pkgRoot, fs, written, queue, visitedUrls, savedFiles,
                 harvestedUrls, fetchLog, writeLog, pending>>

\* how many handlers of the harvest page may await a body at once
MaxPending == 2

\* the responses of the harvest page: the entry document that the page
\* loads (line 455) and what the package requests at run time
HarvestResponses == {SplitAtBase(chosen)} \cup content.runtime

\* Lines 437-444: a response arrives at the harvest page; the handler runs
\* up to `await resp.buffer()` without a break.  A response that is
\* outside the base directory or already captured ends the handler at once.
MirrorHarvestResponse ==
  /\ pc = "m-B"
  /\ Len(pending) < MaxPending
  /\ \E url \in HarvestResponses :
       /\ HarvestKeeps(url, baseDirOf(chosen), harvestedUrls)
       /\ harvestedUrls' = harvestedUrls \cup {url}
       /\ pending' = Append(pending, url)
  /\ UNCHANGED <<mirrorStatic, pc, summary, outcome, pkgRoot, fs, written, writeLog, queue,
                 visitedUrls, savedFiles, fetchLog>>

\* Lines 444-452: resp.buffer() of one of the waiting handlers settles,
\* in any order; a body is written, a rejection is caught and logged.
MirrorHarvestBody ==
  /\ pc = "m-B"
  /\ \E i \in 1..Len(pending), ok \in BOOLEAN :
       LET url == pending[i]
           baseDir == baseDirOf(chosen)
           rel == localPathForRef(SubSeq(url, Min(Len(baseDir), Len(url)) + 1, Len(url)))
           localPath == Path(rid, "pkgfile", rel, pkgRoot)
       IN  /\ pending' = SubSeq(pending, 1, i - 1) \o SubSeq(pending, i + 1, Len(pending))
           /\ IF rel = Null \/ ~ok
              THEN UNCHANGED <<fs, written, writeLog>>
              ELSE /\ fs' = fs \cup {localPath}
                   /\ written' = written \cup {localPath}
                   /\ writeLog' = Append(writeLog, [phase |-> "B", url |-> url,
                                                    path |-> localPath])
  /\ UNCHANGED <<mirrorStatic, pc, summary, outcome, pkgRoot, queue, visitedUrls, savedFiles,
                 harvestedUrls, fetchLog>>

\* Lines 456-460: the harvest window is over and the page is closed (the
\* bodies still awaited are rejected); the package is counted.
MirrorHarvestClose ==
  /\ pc = "m-B"
  /\ pc' = "m-done"
  /\ pending' = <<>>
  /\ summary' = Count(summary, "savedPackages")
  /\ outcome' = [counter |-> "savedPackages", stage |-> "mirror"]
  /\ UNCHANGED <<mirrorStatic, pkgRoot, fs, written, queue, visitedUrls, savedFiles,
                 harvestedUrls, fetchLog, writeLog>>

NextMirror ==
  \/ MirrorEnter
  \/ MirrorPhaseA
  \/ MirrorHarvestOpen
  \/ MirrorHarvestResponse
  \/ MirrorHarvestBody
  \/ MirrorHarvestClose

SpecMirror == InitMirror /\ [][NextMirror]_vars

\* The event loop runs a step of the mirroring whenever one can be run.
SpecMirrorLive == SpecMirror /\ WF_vars(NextMirror)

\* ---------------------------------------------------------------------
\* Blocks 5, 7 and 10: the content sniffers, preflight and the checks of
\* the Preflight-Select loop, each applied on its own to every input of a
\* bounded set.  A call either returns a value or throws.
\* ---------------------------------------------------------------------
MaxBufLen == 4

Return(v) == [kind |-> "return", v |-> v]

Throw(e) == [kind |-> "throw", v |-> e]

\* Line 160: for an absent buffer `buf && ..` is the buffer itself (null or
\* undefined), a falsy value.
looksLikePDFCall(buf) ==
  IF buf = NoBytes THEN Return(FALSE) ELSE Return(looksLikePDF(buf))

\* Line 164: `!buf` returns false for an absent buffer.
looksLikeZIPCall(buf) ==
  IF buf = NoBytes THEN Return(FALSE) ELSE Return(looksLikeZIP(buf))

\* Line 170: buf.toString(..) is evaluated without a guard; reading a
\* property of null or undefined raises a TypeError.
looksLikeHTMLCall(buf) ==
  IF buf = NoBytes THEN Throw("TypeError") ELSE Return(looksLikeHTML(buf))

\* ct: null / undefined
NoCt == <<-2>>

\* Lines 179-201: the extension that a content-type stands for.
extFromContentType(ct) ==
  LET c == ToLowerCase(IF ct = NoCt THEN <<>> ELSE ct)
  IN  IF Includes(c, <<"pdf">>) THEN ".pdf"
      ELSE IF Includes(c, <<"zip">>) THEN ".zip"
      ELSE IF Includes(c, <<"msword">>) THEN ".doc"
      ELSE IF Includes(c, <<"officedocument.wordprocessingml">>) THEN ".docx"
      ELSE IF Includes(c, <<"officedocument.spreadsheetml">>) THEN ".xlsx"
      ELSE IF Includes(c, <<"officedocument.presentationml">>) THEN ".pptx"
      ELSE IF Includes(c, <<"text/", "html">>) THEN ".html"
      ELSE IF Includes(c, <<"text/", "plain">>) THEN ".txt"
      ELSE IF Includes(c, <<"text/", "css">>) THEN ".css"
      ELSE IF Includes(c, <<"javascript">>) THEN ".js"
      ELSE IF Includes(c, <<"image/", "png">>) THEN ".png"
      ELSE IF Includes(c, <<"image/", "jpeg">>) THEN ".jpg"
      ELSE IF Includes(c, <<"image/", "webp">>) THEN ".webp"
      ELSE IF Includes(c, <<"image/", "svg">>) THEN ".svg"
      ELSE IF Includes(c, <<"audio/", "mpeg">>) \/ Includes(c, <<"audio/", "mp3">>) THEN ".mp3"
      ELSE IF Includes(c, <<"video/", "mp4">>) THEN ".mp4"
      ELSE IF Includes(c, <<"font/", "woff2">>) THEN ".woff2"
      ELSE IF Includes(c, <<"font/", "woff">>) THEN ".woff"
      ELSE IF Includes(c, <<"font/", "ttf">>) THEN ".ttf"
      ELSE ""

extFromContentTypeCall(ct) == Return(extFromContentType(ct))

\* Lines 571-581: the `continue` that passes over a probed candidate:
\* "status" (line 572), "size" (line 575), "type" (line 580), or "none".
RejectReason(href, probe, downloadAll, allowLarge) ==
  IF ~probe.ok THEN "status"
  ELSE IF OverCap(probe.cl, allowLarge) THEN "size"
  ELSE IF ~downloadAll /\ ~Includes(ToLowerCase(probe.ct), <<"pdf">>) THEN "type"
  ELSE "none"

\* the bytes the buffers handed to the sniffers are made of
SniffBytes == {80, 75, 3, 4, 5, 7}

ShortPdfBody == <<37, 80, 68, 70>>

Buffers ==
  {NoBytes, PdfBody, NearPdfBody, ShortPdfBody, HtmlBody} \cup SeqsUpTo(SniffBytes, MaxBufLen)

ContentTypes == {NoCt, <<>>, CtPdf, CtPdfUpper, CtZip, CtHtml, CtCss, CtJs, CtJson, CtPng}

\* "209715201, 209715201": a content-length header sent twice, as fetch joins it
DigitsTwice == DigitsOver \o <<44, 32>> \o DigitsOver

R_twice == [ok |-> TRUE, status |-> 200, ct |-> CtPdf, cl |-> DigitsTwice, body |-> PdfBody]

\* what preflight can return
ProbeResults ==
  {doFetch(r, m) : r \in Responses \cup {R_twice}, m \in {"HEAD", "GET"}} \cup {PreflightFailed}

InitFn ==
  /\ DOWNLOAD_ALL = FALSE
  /\ MAX_RETRIES = 0
  /\ ALLOW_LARGE = FALSE
  /\ urls = <<>>
  /\ idx = 0
  /\ pc = "fn-call"
  /\ summary = ZeroSummary
  /\ fs = {}
  /\ rt = RetryStart(MAX_RETRIES)
  /\ attempts = <<>>
  /\ LocalsIdle
  /\ written = {}
  /\ outcome = NoOutcome
  /\ MirrorIdle
  /\ harvestPages = {}
  /\ CookiesIdle
  /\ result = NoResult
  /\ \/ \E b \in Buffers : args = [fn |-> "sniff", buf |-> b]
     \/ \E c \in ContentTypes : args = [fn |-> "ext", ct |-> c]
     \/ \E h \in Responses \cup {Abort}, g \in Responses \cup {Abort} :
          args = [fn |-> "preflight", head |-> h, get |-> g]
     \/ \E u \in {U_pdf, U_zip}, p \in ProbeResults, d \in BOOLEAN, a \in BOOLEAN :
          args = [fn |-> "select", href |-> u, probe |-> p, downloadAll |-> d,
                  allowLarge |-> a]

fnStatic == <<cfgVars, mirrorVars, cookieVars, harvestPages, idx, summary, fs, rt, attempts, locVars,
              written, outcome, args>>

\* the three buffer classifiers on one buffer
ApplySniff ==
  /\ pc = "fn-call"
  /\ args.fn = "sniff"
  /\ result' = [kind |-> "sniffed",
                pdf |-> looksLikePDFCall(args.buf),
                zip |-> looksLikeZIPCall(args.buf),
                html |-> looksLikeHTMLCall(args.buf)]
  /\ pc' = "fn-done"
  /\ UNCHANGED fnStatic

ApplyExt ==
  /\ pc = "fn-call"
  /\ args.fn = "ext"
  /\ result' = extFromContentTypeCall(args.ct)
  /\ pc' = "fn-done"
  /\ UNCHANGED fnStatic

ApplyPreflight ==
  /\ pc = "fn-call"
  /\ args.fn = "preflight"
  /\ result' = Return(preflight(args.head, args.get))
  /\ pc' = "fn-done"
  /\ UNCHANGED fnStatic

ApplySelect ==
  /\ pc = "fn-call"
  /\ args.fn = "select"
  /\ result' = [kind |-> "return",
                v |-> AcceptCandidate(args.href, args.probe, args.downloadAll,
                                      args.allowLarge),
                reason |-> RejectReason(args.href, args.probe, args.downloadAll,
                                        args.allowLarge)]
  /\ pc' = "fn-done"
  /\ UNCHANGED fnStatic

NextFn ==
  \/ ApplySniff
  \/ ApplyExt
  \/ ApplyPreflight
  \/ ApplySelect

SpecFn == InitFn /\ [][NextFn]_vars

\* ---------------------------------------------------------------------
\* sanitize-cookies.js: one run of the sanitizer on any cookies.json, with
\* or without a backup left by an earlier run.
\* ---------------------------------------------------------------------
\* how many elements the array of cookies.json has at most
MaxCookies == 2

\* !v of a JSON value
Falsy(v) == v \in {Str(""), Bool("false"), <<"number", "0">>, <<"null", "null">>}

\* !cookie[key]: the key is absent or its value is falsy
Lacks(o, key) == key \notin DOMAIN o \/ Falsy(o[key])

\* Lines 21-28
ALLOWED_FIELDS == {"name", "value", "domain", "path", "secure", "httpOnly"}

\* Faulty variant: every key of the exported cookie is kept.
CleanKeepsAll(o) ==
  LET withPath == IF Lacks(o, "path") THEN ("path" :> Str("/")) @@ o ELSE o
  IN  IF "secure" \in DOMAIN withPath /\ withPath["secure"][1] = "boolean"
      THEN withPath
      ELSE ("secure" :> Bool("true")) @@ withPath

\* Lines 58-69: the allowed keys of a cookie with their values, a path of
\* '/' where there is none and secure = true where it is not a boolean
Clean(o) ==
  LET clean == [key \in DOMAIN o \cap ALLOWED_FIELDS |-> o[key]]
      withPath == IF Lacks(clean, "path") THEN ("path" :> Str("/")) @@ clean ELSE clean
  IN  IF "secure" \in DOMAIN withPath /\ withPath["secure"][1] = "boolean"
      THEN withPath
      ELSE ("secure" :> Bool("true")) @@ withPath

\* Lines 53-70: raw.map(...) from element i on.  Reading a property of
\* null throws a TypeError; fatal() ends the process at the first cookie
\* that lacks a name, a value or a domain.
RECURSIVE MapClean(_, _, _)
MapClean(raw, i, cleaned) ==
  IF i > Len(raw) THEN [kind |-> "cleaned", list |-> cleaned]
  ELSE IF raw[i].t = "null" THEN [kind |-> "TypeError", list |-> <<>>]
  ELSE IF Lacks(raw[i].o, "name") \/ Lacks(raw[i].o, "value") \/ Lacks(raw[i].o, "domain")
  THEN [kind |-> "fatal", list |-> <<>>]
  ELSE MapClean(raw, i + 1, Append(cleaned, Obj(Clean(raw[i].o))))

\* Lines 36-75: the checks up to the backup
Validate(file) ==
  IF file.kind # "array" THEN [kind |-> "fatal", list |-> <<>>]
  ELSE LET mapped == MapClean(file.list, 1, <<>>)
       IN  IF mapped.kind # "cleaned" THEN mapped
           ELSE IF \E i \in 1..Len(mapped.list) :
                     mapped.list[i].o["name"] = Str("MoodleSession")
           THEN mapped
           ELSE [kind |-> "fatal", list |-> <<>>]

\* cookies as a browser extension exports them
ExportedSession ==
  Obj([name |-> Str("MoodleSession"), value |-> Str("s3cr3t"), domain |-> Str("h"),
       path |-> Str("/moodle"), secure |-> Bool("false"), httpOnly |-> Bool("true"),
       sameSite |-> Str("lax"), hostOnly |-> Bool("true"), storeId |-> <<"null", "null">>])
ExportedBare ==
  Obj([name |-> Str("MOODLEID1_"), value |-> Str("x"), domain |-> Str("h"),
       expirationDate |-> <<"number", "1790000000">>])
ExportedOdd ==
  Obj([name |-> Str("MoodleSession"), value |-> Str("t0k3n"), domain |-> Str("h"),
       path |-> Str(""), secure |-> Str("yes"), session |-> Bool("true")])
ExportedNoValue ==
  Obj([name |-> Str("MoodleSession"), value |-> Str(""), domain |-> Str("h")])
ExportedNoDomain ==
  Obj([name |-> Str("MoodleSession"), value |-> Str("s3cr3t"), sameSite |-> Str("lax")])

Elements ==
  {ExportedSession, ExportedBare, ExportedOdd, ExportedNoValue, ExportedNoDomain, JsNull}

RECURSIVE ListsUpTo(_, _)
ListsUpTo(S, n) ==
  IF n = 0 THEN {<<>>}
  ELSE LET shorter == ListsUpTo(S, n - 1)
       IN  shorter \cup {Append(l, e) : l \in shorter, e \in S}

\* what cookies.json may be when the sanitizer starts
CookieFiles ==
  {Missing, NotJson, NotArray} \cup {JsonArray(l) : l \in ListsUpTo(Elements, MaxCookies)}

InitSanitize ==
  /\ DOWNLOAD_ALL = FALSE
  /\ MAX_RETRIES = 0
  /\ ALLOW_LARGE = FALSE
  /\ urls = <<>>
  /\ idx = 0
  /\ pc = "s-start"
  /\ summary = ZeroSummary
  /\ fs = {}
  /\ rt = RetryStart(MAX_RETRIES)
  /\ attempts = <<>>
  /\ LocalsIdle
  /\ written = {}
  /\ outcome = NoOutcome
  /\ MirrorIdle
  /\ harvestPages = {}
  /\ cookieCalls = <<>>
  /\ cookieFile \in CookieFiles
  /\ backupFile \in {Missing, JsonArray(<<ExportedBare>>)}
  /\ args = [fn |-> "sanitize", file |-> cookieFile, backup |-> backupFile]
  /\ result = NoResult

sanitizeStatic == <<cfgVars, mirrorVars, harvestPages, idx, summary, fs, rt, attempts, locVars,
                    written, outcome, args, cookieCalls>>

\* Lines 36-75: the file is read, parsed, cleaned and checked; fatal()
\* exits the process, an uncaught TypeError ends it.
SanitizeValidate ==
  /\ pc = "s-start"
  /\ result' = Validate(cookieFile)
  /\ pc' = CASE result'.kind = "fatal" -> "s-exit"
             [] result'.kind = "TypeError" -> "s-typeerror"
             [] OTHER -> "s-valid"
  /\ UNCHANGED <<sanitizeStatic, cookieFile, backupFile>>

\* Line 78: fs.copyFileSync(COOKIE_PATH, BACKUP_PATH), which may throw
SanitizeBackup ==
  /\ pc = "s-valid"
  /\ \/ /\ backupFile' = cookieFile
        /\ pc' = "s-backed"
     \/ /\ pc' = "s-copy-failed"
        /\ UNCHANGED backupFile
  /\ UNCHANGED <<sanitizeStatic, cookieFile, result>>

\* Lines 81-84: fs.writeFileSync(COOKIE_PATH, JSON.stringify(cleaned));
\* a write that throws leaves the file as it was or cut short
SanitizeWrite ==
  /\ pc = "s-backed"
  /\ \/ /\ cookieFile' = JsonArray(result.list)
        /\ pc' = "s-done"
     \/ /\ cookieFile' \in {cookieFile, NotJson}
        /\ pc' = "s-write-failed"
  /\ UNCHANGED <<sanitizeStatic, backupFile, result>>

NextSanitize ==
  \/ SanitizeValidate
  \/ SanitizeBackup
  \/ SanitizeWrite

SpecSanitize == InitSanitize /\ [][NextSanitize]_vars

\* ---------------------------------------------------------------------
\* Properties
\* ---------------------------------------------------------------------
Sum4(s) == s.savedFiles + s.savedPackages + s.skipped + s.failed

HasSeg(u, S) == \E i \in 1..Len(u) : u[i] \in S

ContainsPdf(u) == HasSeg(u, {".pdf", ".PDF"})

CtHasPdf(ct) == HasSeg(ct, {"pdf", "PDF"})

StartsWithPdfMagic(buf) ==
  /\ Len(buf) >= 5
  /\ buf[1] = 37 /\ buf[2] = 80 /\ buf[3] = 68 /\ buf[4] = 70 /\ buf[5] = 45

Hrefs(r) == [i \in 1..Len(r) |-> r[i].href]

NoDup(s) == \A i, j \in 1..Len(s) : i # j => s[i] # s[j]

FirstIndex(s, x) == CHOOSE i \in 1..Len(s) : s[i] = x /\ \A j \in 1..(i - 1) : s[j] # x

\* the form of a URL: 1 zip, 2 pdf, 3 index.html, 4 plugin-file, 5 other
FormRank(u) ==
  IF HasSeg(u, {".zip", ".ZIP"}) THEN 1
  ELSE IF ContainsPdf(u) THEN 2
  ELSE IF \/ u[Len(u)] = "/index.html"
          \/ \E i \in 1..(Len(u) - 1) : u[i] = "/index.html" /\ u[i + 1] = "?" THEN 3
  ELSE IF HasSeg(u, {"/pluginfile.php/"}) THEN 4
  ELSE 5

OneOfEachForm(c) == Len(c) = 5 /\ {FormRank(c[i]) : i \in 1..5} = 1..5

InFormOrder(c) == [r \in 1..5 |-> c[CHOOSE i \in 1..5 : FormRank(c[i]) = r]]

\* C1: whatever happens to a resource, the main loop goes on to the next
\* input URL: when the run has ended, summary.processed is the number of
\* input URLs.
C1_RunProcessesEveryUrl ==
  pc \in {"done", "crashed"} => summary.processed = Len(urls)

\* C2: every processed resource ends in exactly one outcome: between two
\* iterations summary.processed is the sum of the four outcome counters,
\* no counter ever decreases and no step bumps more than one of them.
C2_OneOutcomePerResource ==
  /\ [](pc \in {"loop", "done", "crashed"} => summary.processed = Sum4(summary))
  /\ [][/\ summary'.savedFiles >= summary.savedFiles
        /\ summary'.savedPackages >= summary.savedPackages
        /\ summary'.skipped >= summary.skipped
        /\ summary'.failed >= summary.failed
        /\ Sum4(summary') <= Sum4(summary) + 1
        /\ Sum4(summary') <= summary'.processed]_vars

C2_Witness ==
  /\ pc = "done"
  /\ summary.processed = 2
  /\ summary.savedFiles = 1
  /\ summary.failed = 1

C4_Original ==
  [][(/\ ~DOWNLOAD_ALL
      /\ pc = "selected"
      /\ Len(ranked) = 1
      /\ ContainsPdf(ranked[1].href)
      /\ pf.ok
      /\ pf.ct = CtHtml) => pc' = "download"]_vars

\* C4 (amended): when the server answers the probe of a PDF link with a
\* content-type that does not contain 'pdf' (text/html, a login page), PDF-only
\* mode rejects the candidate at Preflight-Select: it is not chosen and not
\* retrieved, and when it was the last candidate the resource is counted
\* Skipped, not Failed, with nothing written.
C4_RejectedAtPreflightSelect ==
  [][(/\ ~DOWNLOAD_ALL
      /\ pc = "selected"
      /\ pf # NoPf
      /\ ~CtHasPdf(pf.ct))
     => /\ chosen = NoUrl
        /\ full = NoFull
        /\ pc' = "loop"
        /\ summary'.skipped = summary.skipped + 1
        /\ summary'.failed = summary.failed
        /\ fs' = fs]_vars

C4_Witness ==
  /\ ~DOWNLOAD_ALL
  /\ pc = "selected"
  /\ ranked = <<[href |-> U_pdf, score |-> 900]>>
  /\ pf.ok
  /\ pf.ct = CtHtml
  /\ chosen = NoUrl

\* C5: withRetries, given an operation that fails k times and then succeeds
\* (k below the budget), invokes it k + 1 times, returns the success value
\* and sleeps k times, the i-th time for 300 ms x i.
C5_RetrySucceedsAfterFailures ==
  rt.st = "returned" =>
    LET n == Len(attempts)
    IN  /\ n >= 1
        /\ n <= rt.retries
        /\ attempts[n].kind = "return"
        /\ \A i \in 1..(n - 1) : attempts[i].kind = "throw"
        /\ rt.calls = n
        /\ rt.value = attempts[n].v
        /\ Len(rt.delays) = n - 1
        /\ \A i \in 1..(n - 1) : rt.delays[i] = 300 * i

C5_Witness ==
  /\ rt.st = "returned"
  /\ rt.retries >= 3
  /\ Len(attempts) = 3
  /\ rt.delays = <<300, 600>>

\* C6: withRetries with budget N, given an operation that fails at every
\* attempt, invokes it exactly N times and throws the error of the N-th
\* attempt, whatever the earlier errors were.
C6_RetryThrowsLastError ==
  rt.st = "thrown" =>
    /\ rt.calls = rt.retries
    /\ Len(attempts) = rt.retries
    /\ \A i \in 1..Len(attempts) : attempts[i].kind = "throw"
    /\ rt.retries >= 1 => RetryThrown(rt) = attempts[rt.retries].v

C6_Witness ==
  /\ rt.st = "thrown"
  /\ rt.retries = 3
  /\ attempts[1].v # attempts[3].v
  /\ attempts[2].v # attempts[3].v

\* C7: in Preflight-Select the candidates are probed in ranked order and
\* the loop stops at the first accepted one: the probed candidates are the
\* first ones of the ranked list, the chosen candidate is the last probed,
\* and no candidate is probed once one is chosen.
C7_ProbedInRankedOrder ==
  /\ Len(probed) <= Len(ranked)
  /\ \A j \in 1..Len(probed) : probed[j] = ranked[j].href
  /\ pc = "preflight" => (Len(probed) \in {k - 1, k} /\ chosen = NoUrl)
  /\ chosen # NoUrl =>
       /\ probed # <<>>
       /\ chosen = probed[Len(probed)]
       /\ \A j \in 1..(Len(probed) - 1) : probed[j] # chosen

C7_Witness ==
  /\ chosen # NoUrl
  /\ Len(ranked) = 3
  /\ Len(probed) = 2
  /\ pc = "retrieved"

\* C8 (as claimed): for a candidate list with one URL of each form,
\* rankCandidates returns the five URLs in the order zip, pdf, index.html,
\* plugin-file, other.
C8_Original ==
  (pc = "rank-out" /\ OneOfEachForm(candidates))
    => Hrefs(ranked) = InFormOrder(candidates)

\* C8 (amended): in unrestricted mode, for a candidate list with one URL of
\* each form, rankCandidates returns the five URLs in the order zip, pdf,
\* index.html, plugin-file, other, a URL matching several forms taking the
\* first form that matches; in PDF-only mode it returns, in that order, only
\* those of the five that contain '.pdf'.
C8_FormOrder ==
  (pc = "rank-out" /\ OneOfEachForm(candidates))
    => Hrefs(ranked) = IF DOWNLOAD_ALL THEN InFormOrder(candidates)
                       ELSE SelectSeq(InFormOrder(candidates), ContainsPdf)

C8_Witness ==
  /\ pc = "rank-out"
  /\ DOWNLOAD_ALL
  /\ candidates = <<U_other, U_plug, U_index, U_pdfForced, U_zipPdf>>
  /\ Len(ranked) = 5

\* C9: rankCandidates returns the deduplicated (in PDF-only mode, filtered)
\* input, each URL once, by non-increasing score, URLs of equal score in the
\* order of their first appearance in the input.
C9_StableDescendingPermutation ==
  pc = "rank-out" =>
    /\ NoDup(Hrefs(ranked))
    /\ Elems(Hrefs(ranked)) = {u \in Elems(candidates) : DOWNLOAD_ALL \/ ContainsPdf(u)}
    /\ \A i \in 1..(Len(ranked) - 1) : ranked[i].score >= ranked[i + 1].score
    /\ \A i, j \in 1..Len(ranked) :
         (i < j /\ ranked[i].score = ranked[j].score)
           => FirstIndex(candidates, ranked[i].href) < FirstIndex(candidates, ranked[j].href)

C9_Witness ==
  /\ pc = "rank-out"
  /\ candidates = <<U_other2, U_zip, U_other, U_other2, U_zip>>
  /\ Hrefs(ranked) = <<U_zip, U_other2, U_other>>

\* C10: in PDF-only mode a candidate whose URL does not contain '.pdf' (in
\* any case) is never ranked, probed or chosen, and when no extracted
\* candidate contains '.pdf' the resource is counted Skipped without a probe.
C10_NonPdfDroppedBeforeScoring ==
  /\ [](~DOWNLOAD_ALL =>
          /\ \A i \in 1..Len(ranked) : ContainsPdf(ranked[i].href)
          /\ \A i \in 1..Len(probed) : ContainsPdf(probed[i])
          /\ chosen # NoUrl => ContainsPdf(chosen))
  /\ [][(/\ ~DOWNLOAD_ALL
         /\ pc = "rank"
         /\ \A i \in 1..Len(candidates) : ~ContainsPdf(candidates[i]))
        => /\ pc' = "loop"
           /\ summary'.skipped = summary.skipped + 1
           /\ summary'.failed = summary.failed
           /\ probed = <<>>
           /\ fs' = fs]_vars

C10_Witness ==
  /\ ~DOWNLOAD_ALL
  /\ outcome = [counter |-> "skipped", stage |-> "rank"]
  /\ summary.skipped = 1

\* a step of the Preflight-Select loop in which the probe of candidate k
\* has returned
ProbeReturned == pc = "preflight" /\ (k' = k + 1 \/ pc' = "selected")

CapBytes == 200 * 1024 * 1024

\* C11: in Preflight-Select a candidate probed with a content-length one
\* byte over the 200 MiB cap is rejected and the next candidate is tried;
\* one probed one byte under the cap is not rejected for size; with
\* ALLOW_LARGE=1 no candidate is rejected for size.
C11_SizeCap ==
  [][ProbeReturned =>
       LET href == ranked[k].href
           typeOk == DOWNLOAD_ALL \/ CtHasPdf(pf'.ct)
       IN  /\ (~ALLOW_LARGE /\ pf'.ok /\ pf'.cl = DigitsOver)
                => /\ chosen' = NoUrl
                   /\ k < Len(ranked) => (pc' = "preflight" /\ k' = k + 1)
           /\ (pf'.ok /\ pf'.cl = DigitsUnder /\ typeOk) => chosen' = href
           /\ (ALLOW_LARGE /\ pf'.ok /\ typeOk) => chosen' = href]_vars

C11_Witness ==
  /\ ~ALLOW_LARGE
  /\ pc = "preflight"
  /\ k = 2
  /\ pf.ok
  /\ pf.cl = DigitsOver
  /\ chosen = NoUrl

C11_WitnessUnder ==
  /\ ~ALLOW_LARGE
  /\ pc = "selected"
  /\ pf.ok
  /\ pf.cl = DigitsUnder
  /\ chosen # NoUrl

\* C12: in unrestricted mode a candidate whose URL contains '.zip' is only
\* chosen when its probe verifies it as a ZIP: the probed content-type
\* contains 'zip' or the probed prefix carries a ZIP signature.
C12_ZipChosenOnlyWhenVerified ==
  (/\ DOWNLOAD_ALL
   /\ pc = "selected"
   /\ chosen # NoUrl
   /\ HasSeg(chosen, {".zip", ".ZIP"}))
  => \/ HasSeg(pf.ct, {"zip", "ZIP"})
     \/ /\ pf.prefix # NoBytes
        /\ Len(pf.prefix) >= 4
        /\ pf.prefix[1] = 80 /\ pf.prefix[2] = 75 /\ pf.prefix[3] \in {3, 5, 7}

PhaseAWrites == {i \in 1..Len(writeLog) : writeLog[i].phase = "A"}

PhaseBWrites == {i \in 1..Len(writeLog) : writeLog[i].phase = "B"}

PackageRoot(n) == [rid |-> "7", kind |-> "pkgdir", base |-> <<>>, n |-> n]

\* C14: during Phase A no absolute URL is fetched more than once: a resolved
\* reference that is already in the visited set is passed over without a
\* fetch, whatever the reference graph (cycles, repeated references).
C14_NoUrlFetchedTwice ==
  /\ \A i, j \in 1..Len(fetchLog) : i # j => fetchLog[i].url # fetchLog[j].url
  /\ \A i \in 1..Len(fetchLog) : fetchLog[i].url \in visitedUrls

C14_Witness ==
  /\ content = SiteCycle
  /\ pc = "m-A"
  /\ queue = <<>>
  /\ Len(fetchLog) = 3

\* C15 (as claimed): for every MIRROR_MAX_DEPTH, 0 included, no item of the
\* Phase A queue, seed or child, has a depth greater than MIRROR_MAX_DEPTH.
C15_Original ==
  \A i \in 1..Len(queue) : queue[i].depth <= MIRROR_MAX_DEPTH

\* C15 (amended): the seed references are always pushed at depth 1, also
\* when MIRROR_MAX_DEPTH is 0, and a child reference is only pushed at a
\* depth of at most MIRROR_MAX_DEPTH: for MIRROR_MAX_DEPTH >= 1 no item of
\* the queue is deeper than MIRROR_MAX_DEPTH, and for every
\* MIRROR_MAX_DEPTH an item deeper than it is passed over when it is
\* dequeued, so that nothing is fetched at a depth above MIRROR_MAX_DEPTH.
C15_DepthBound ==
  /\ \A i \in 1..Len(queue) :
       /\ queue[i].depth >= 1
       /\ queue[i].depth <= MIRROR_MAX_DEPTH \/ queue[i].depth = 1
  /\ MIRROR_MAX_DEPTH >= 1 => \A i \in 1..Len(queue) : queue[i].depth <= MIRROR_MAX_DEPTH
  /\ \A i \in 1..Len(fetchLog) : fetchLog[i].depth <= MIRROR_MAX_DEPTH

C15_Witness ==
  /\ MIRROR_MAX_DEPTH = 0
  /\ MIRROR_MAX_FILES > 0
  /\ content = SiteDeep
  /\ pc = "m-B"
  /\ fetchLog = <<>>

\* C16: the number of asset files Phase A fetches and writes, each
\* successful fetch-and-write counted once, never exceeds MIRROR_MAX_FILES,
\* also for references that differ only in their query string or fragment.
C16_PhaseAWritesWithinCap ==
  Cardinality(PhaseAWrites) <= MIRROR_MAX_FILES

\* C17: mirroring never leaves the base directory: every URL Phase A
\* fetches and every response URL whose body Phase B persists starts with
\* the base directory of the entry URL.
C17_StaysInBaseDir ==
  /\ \A i \in 1..Len(fetchLog) : StartsWith(fetchLog[i].url, Base)
  /\ \A i \in 1..Len(writeLog) : StartsWith(writeLog[i].url, Base)
  /\ \A u \in visitedUrls \cup harvestedUrls : StartsWith(u, Base)

C17_Witness ==
  /\ content = SiteEscape
  /\ pc = "m-done"
  /\ Len(fetchLog) = 1
  /\ fetchLog[1].url = Ref_bAbs
  /\ harvestedUrls = {Base \o Ref_d}

\* C18: Phase A is over (the queue is empty or the file cap is reached)
\* when the harvest page is opened, and once Phase B has begun Phase A
\* fetches and writes nothing.
C18_PhaseABeforePhaseB ==
  [][/\ (pc = "m-A" /\ pc' = "m-B")
          => (queue = <<>> \/ Cardinality(savedFiles) >= MIRROR_MAX_FILES)
     /\ pc \in {"m-B", "m-done"}
          => /\ fetchLog' = fetchLog
             /\ queue' = queue
             /\ savedFiles' = savedFiles
             /\ visitedUrls' = visitedUrls
             /\ \A i \in 1..Len(writeLog') : i > Len(writeLog) => writeLog'[i].phase = "B"
             /\ pc' \in {"m-B", "m-done"}]_vars

C18_Witness ==
  /\ pc = "m-done"
  /\ \E i \in PhaseAWrites, j \in PhaseBWrites :
       i < j /\ writeLog[i].path = writeLog[j].path

DocDir(docUrl) ==
  LET name == TakeUntil(TakeUntil(docUrl, {"#"}), {"?"})
  IN  IF name[Len(name)] \in {"/index.html", "/Index.html"}
      THEN SubSeq(name, 1, Len(name) - 1) \o <<"/">>
      ELSE SubSeq(name, 1, Len(name) - 1)

Denotes(ref, docUrl) ==
  IF ref[1] \in {"https://h", "https://evil", "https://cdn", "DATA:", "http://"} THEN ref
  ELSE IF ref[1] = "/" THEN <<docUrl[1]>> \o ref
  ELSE IF ref[1] = "?" THEN TakeUntil(TakeUntil(docUrl, {"#"}), {"?"}) \o ref
  ELSE IF ref[1] = "./" THEN DocDir(docUrl) \o Tail(ref)
  ELSE IF ref[1] = "../" THEN ParentDir(DocDir(docUrl)) \o Tail(ref)
  ELSE DocDir(docUrl) \o ref

AssetsOf(text, docUrl) ==
  {u \in {Denotes(text[i], docUrl) : i \in {j \in 1..Len(text) :
            text[j][1] \notin {"#", "data:", "blob:", "javascript:", "mailto:", "tel:"}}} :
     StartsWith(u, Base) /\ Len(u) > Len(Base)}

\* the assets referenced at level d: by the entry document (d = 1), or by
\* a textual asset of level d - 1
RECURSIVE AssetsAtLevel(_)
AssetsAtLevel(d) ==
  IF d = 1 THEN AssetsOf(content.seed, chosen)
  ELSE UNION {AssetsOf(BodyOf(u), u) : u \in {v \in AssetsAtLevel(d - 1) : IsTextType(CtOf(v))}}

ReferencedAssets == UNION {AssetsAtLevel(d) : d \in 1..MIRROR_MAX_DEPTH}

FileOfAsset(u) ==
  [rid |-> "7", kind |-> "pkgfile", n |-> pkgRoot,
   base |-> TakeUntil(TakeUntil(SubSeq(u, Len(Base) + 1, Len(u)), {"#"}), {"?"})]

\* C20: in unrestricted mode, when no asset fetch fails and no cap is
\* reached, the mirrored package directory ends up with index.html and a
\* file for every asset inside the base directory that is referenced from
\* the entry document or, within MIRROR_MAX_DEPTH levels, from a fetched
\* textual asset.
C20_PackageComplete ==
  (/\ pc = "m-done"
   /\ DOWNLOAD_ALL
   /\ \A i \in 1..Len(fetchLog) : fetchLog[i].ok
   /\ Cardinality(savedFiles) < MIRROR_MAX_FILES)
  => /\ [rid |-> "7", kind |-> "pkgfile", n |-> pkgRoot, base |-> <<"index.html">>] \in fs
     /\ \A u \in ReferencedAssets : FileOfAsset(u) \in fs

\* The same, for the packages whose documents are all in the base directory
\* itself.
C20_FlatPackageComplete ==
  content # SiteSubdir => C20_PackageComplete

\* The files of the current resource by kind.
WrittenOfKind(kind) == {p \in written : p.kind = kind}

\* C21 as stated: a resource counted in savedFiles has its content file and
\* its .meta.json sidecar written, and a resource for which a direct
\* content file was written has the outcome Saved.
C21_Original ==
  outcome # NoOutcome =>
    /\ outcome.counter = "savedFiles" =>
         \E f \in WrittenOfKind("file") : Path(f.rid, "meta", f.base, f.n) \in written
    /\ WrittenOfKind("file") # {} => outcome.counter = "savedFiles"

\* C21: a resource is counted in savedFiles only when its content file and
\* the .meta.json sidecar of that file are both written; a resource for
\* which a content file was written is Saved, or it is Failed at the write
\* stage with the sidecar missing (the write of the sidecar threw after the
\* content file was written).
C21_SavedHasBothFiles ==
  outcome # NoOutcome =>
    /\ outcome.counter = "savedFiles" =>
         \E f \in WrittenOfKind("file") :
           /\ Path(f.rid, "meta", f.base, f.n) \in written
           /\ {f, Path(f.rid, "meta", f.base, f.n)} \subseteq fs
    /\ WrittenOfKind("file") # {} =>
         \/ outcome.counter = "savedFiles"
         \/ /\ outcome = [counter |-> "failed", stage |-> "write"]
            /\ WrittenOfKind("meta") = {}

C21_Witness ==
  /\ outcome = [counter |-> "savedFiles", stage |-> "write"]
  /\ WrittenOfKind("file") # {}
  /\ WrittenOfKind("meta") # {}

\* the content file is on disk without its sidecar and the resource is Failed
C21_WitnessOrphan ==
  /\ outcome = [counter |-> "failed", stage |-> "write"]
  /\ WrittenOfKind("file") # {}
  /\ WrittenOfKind("meta") = {}

C23_OneResourceAtATime ==
  [][/\ idx' # idx =>
          /\ idx' = idx + 1
          /\ pc = "loop"
          /\ idx > 0 => outcome # NoOutcome
     /\ \A p \in fs' \ fs : pc = "loop" \/ p \in written']_vars

\* C26 as stated, for the probe: a probe whose requests time out or abort is
\* a failure of the operation that withRetries runs, so it never comes back
\* to the Preflight-Select loop as a returned result (status 0).
C26_AbortReachesRetry ==
  [][ProbeReturned => pf' # PreflightFailed]_vars

MirrorCase ==
  DOWNLOAD_ALL /\ isHtmlPackageIndex(chosen) /\ looksLikeHTML(full.data)

\* C29: when a retrieved buffer is classified, the pipeline enters Mirror
\* (or fails while creating the package) exactly when the mode is
\* unrestricted, the chosen URL matches the package-index pattern and the
\* buffer passes looksLikeHTML, and then writes no direct file; otherwise
\* it ends at Write or Skipped and creates no package directory or package
\* file.  In PDF-only mode no package is ever entered or created.
C29_MirrorIffIndexAndHtml ==
  /\ [](~DOWNLOAD_ALL =>
          /\ pc \notin {"mirrorA", "harvest"}
          /\ \A p \in fs : p.kind \notin {"pkgdir", "pkgfile"})
  /\ [][(pc = "retrieved" /\ pc' # "retrieved" /\ full.ok) =>
          /\ MirrorCase =>
               /\ pc' = "mirrorA" \/ outcome' = [counter |-> "failed", stage |-> "mirror"]
               /\ \A p \in written' \ written : p.kind \in {"pkgdir", "pkgfile"}
          /\ ~MirrorCase =>
               /\ pc' = "loop"
               /\ outcome'.stage \in {"classify", "write"}
               /\ \A p \in written' \ written : p.kind \in {"file", "meta"}]_vars

C29_Witness ==
  /\ DOWNLOAD_ALL
  /\ pc = "mirrorA"
  /\ chosen = U_index
  /\ full.data = HtmlBody
  /\ Path(rid, "pkgdir", <<>>, pkgRoot) \in written

\* an index URL whose buffer is no HTML is written as a direct file
C29_WitnessNotHtml ==
  /\ DOWNLOAD_ALL
  /\ outcome = [counter |-> "savedFiles", stage |-> "write"]
  /\ Path(rid, "file", U_index, 0) \in written

\* the signature test of line 165-166 on the first three bytes
ZipSignature(buf) == buf[1] = 80 /\ buf[2] = 75 /\ buf[3] \in {3, 5, 7}

Sniffed == pc = "fn-done" /\ args.fn = "sniff"

\* C24 as stated: for every buffer of three bytes or more looksLikeZIP is
\* true exactly when bytes 0..2 are 0x50, 0x4B and one of 0x03, 0x05, 0x07.
C24_Original ==
  (Sniffed /\ args.buf # NoBytes /\ Len(args.buf) >= 3) =>
    /\ result.zip.kind = "return"
    /\ result.zip.v = ZipSignature(args.buf)

\* C24: for every buffer of four bytes or more looksLikeZIP is true exactly
\* when bytes 0..2 are 0x50, 0x4B and one of 0x03, 0x05, 0x07 (byte 3 is
\* not looked at); for a buffer of fewer than four bytes, the three
\* signature bytes alone included, it is false.
C24_FourBytesNeeded ==
  (Sniffed /\ args.buf # NoBytes) =>
    /\ result.zip.kind = "return"
    /\ Len(args.buf) >= 4 => result.zip.v = ZipSignature(args.buf)
    /\ Len(args.buf) < 4 => result.zip.v = FALSE

C24_Witness ==
  /\ Sniffed
  /\ args.buf = <<80, 75, 5, 80>>
  /\ result.zip.v = TRUE

\* the three signature bytes alone
C24_WitnessThreeBytes ==
  /\ Sniffed
  /\ args.buf = <<80, 75, 3>>
  /\ result.zip.v = FALSE

AttemptFails(resp) == IsAbort(resp) \/ ~resp.ok

Probed == pc = "fn-done" /\ args.fn = "preflight"

\* C27 as stated: when the HEAD attempt and the GET attempt both fail,
\* preflight returns a non-ok result with status 0.
C27_Original ==
  (Probed /\ AttemptFails(args.head) /\ AttemptFails(args.get)) =>
    /\ ~result.v.ok
    /\ result.v.status = 0

\* C27: when both attempts fail preflight returns a non-ok result; its
\* status is 0, with no headers and no prefix, exactly when the GET attempt
\* ended in a timeout, abort or network error; when the GET attempt was
\* answered with a non-success status, the result carries that status and
\* the headers and prefix of that answer.
C27_StatusOfSecondAttempt ==
  (Probed /\ AttemptFails(args.head) /\ AttemptFails(args.get)) =>
    /\ result.kind = "return"
    /\ ~result.v.ok
    /\ IsAbort(args.get) =>
         /\ result.v.status = 0
         /\ result.v.ct = <<>> /\ result.v.cl = <<>> /\ result.v.prefix = NoBytes
    /\ ~IsAbort(args.get) =>
         /\ result.v.status = args.get.status
         /\ result.v.status # 0
         /\ result.v.ct = args.get.ct
         /\ result.v.prefix # NoBytes

C27_Witness ==
  /\ Probed
  /\ args.head = Abort
  /\ args.get = R_404
  /\ result.v.status = 404

C27_WitnessAborted ==
  /\ Probed
  /\ args.head = R_404
  /\ args.get = Abort
  /\ result.v.status = 0

\* the header is a decimal number
IsDecimal(cl) == cl # <<>> /\ \A i \in 1..Len(cl) : cl[i] \in 0..9

Selected == pc = "fn-done" /\ args.fn = "select"

\* C30: a probed candidate is passed over by the size check exactly when
\* its probe succeeded, the cap is finite (ALLOW_LARGE is not set) and the
\* probe declares a decimal content-length strictly greater than the cap;
\* with an absent or non-numeric content-length it is never passed over by
\* the size check, and whether it is chosen does not depend on the cap.
C30_NoLengthNeverTooLarge ==
  Selected =>
    /\ result.reason = "size" <=>
         /\ args.probe.ok
         /\ ~args.allowLarge
         /\ IsDecimal(args.probe.cl)
         /\ DigitsValue(args.probe.cl, 0) > CapBytes
    /\ ~IsDecimal(args.probe.cl) =>
         /\ result.reason # "size"
         /\ result.v = (args.probe.ok /\ (args.downloadAll \/ CtHasPdf(args.probe.ct)))
    /\ result.v <=> result.reason = "none"

C30_Witness ==
  /\ Selected
  /\ args.probe.cl = DigitsTwice
  /\ ~args.allowLarge
  /\ result.v = TRUE

C30_WitnessAbsent ==
  /\ Selected
  /\ args.probe = doFetch(R_near, "GET")
  /\ ~args.allowLarge
  /\ result.v = TRUE

C30_WitnessOver ==
  /\ Selected
  /\ args.probe.cl = DigitsOver
  /\ result.reason = "size"

\* C31 as stated: a call of withRetries that exhausts a budget of N
\* attempts has slept N-1 times when it throws: there is no delay after
\* the last attempt.
C31_DelayOnlyBeforeRetry ==
  (pc = "retry" /\ rt.st = "thrown" /\ rt.retries >= 1) =>
    /\ rt.calls = rt.retries
    /\ Len(rt.delays) = rt.retries - 1

\* C37 as stated: whatever the budget, a call of withRetries that has ended
\* invoked the operation at least once and at most `retries` times, and
\* what it throws was thrown by one of those invocations.
C37_InvokedAtLeastOnce ==
  (pc = "retry" /\ rt.st \in {"thrown", "returned"}) =>
    /\ rt.calls >= 1
    /\ rt.calls <= rt.retries
    /\ rt.st = "thrown" =>
         \E i \in 1..Len(attempts) : attempts[i] = [kind |-> "throw", v |-> RetryThrown(rt)]

\* C32: under a scheduler that keeps running the mirroring, Phase A always
\* ends, whatever the references of the package (cycles and
\* self-references included): the function throws, or the queue is empty,
\* or the saved-file count has reached MIRROR_MAX_FILES.
C32_PhaseATerminates ==
  (pc = "m-A") ~>
    (pc # "m-A" /\ (pc = "m-failed" \/ queue = <<>>
                     \/ Cardinality(savedFiles) >= MIRROR_MAX_FILES))

C32_Witness ==
  /\ content = SiteCycle
  /\ pc = "m-B"
  /\ queue = <<>>
  /\ {Base \o Ref_a, Base \o Ref_c} \subseteq visitedUrls
  /\ Cardinality({i \in 1..Len(fetchLog) : fetchLog[i].url = Base \o Ref_a}) = 1

\* C33: in Phase B no URL reaches the file write twice, and no URL is
\* awaited by two handlers or awaited again after it was written, however
\* the handlers interleave.
C33_HarvestWritesOnce ==
  LET B == {i \in 1..Len(writeLog) : writeLog[i].phase = "B"}
  IN  /\ \A i, j \in B : i # j => writeLog[i].url # writeLog[j].url
      /\ \A i, j \in 1..Len(pending) : i # j => pending[i] # pending[j]
      /\ \A i \in 1..Len(pending), j \in B : pending[i] # writeLog[j].url

C33_Witness ==
  /\ pc = "m-B"
  /\ Len(pending) = 1
  /\ pending[1] \in harvestedUrls
  /\ \E j \in 1..Len(writeLog) : writeLog[j].phase = "B" /\ writeLog[j].url \in harvestedUrls

\* the path of index.html in the package root
IndexPath == Path(rid, "pkgfile", <<"index.html">>, pkgRoot)

\* C38 as stated: after the entry write nothing writes to
\* <packageRoot>/index.html again.
C38_IndexWrittenOnce ==
  \A i \in 1..Len(writeLog) : writeLog[i].path # IndexPath

\* C38 amended: index.html exists from the entry write on, and each later
\* write to it stores a body that was fetched from the entry URL (a query
\* string aside).
C38_IndexRewrittenFromEntry ==
  pc \in {"m-A", "m-B", "m-done", "m-failed"} =>
    /\ IndexPath \in fs
    /\ \A i \in 1..Len(writeLog) :
         writeLog[i].path = IndexPath =>
           TakeUntil(writeLog[i].url, {"?", "#"}) = SplitAtBase(chosen)

C38_Witness ==
  /\ pc = "m-done"
  /\ \E i \in 1..Len(writeLog) : writeLog[i].phase = "A" /\ writeLog[i].path = IndexPath
  /\ \E i \in 1..Len(writeLog) : writeLog[i].phase = "B" /\ writeLog[i].path = IndexPath

\* C34 as stated: when the visit of a resource is over, by a return or by
\* a throw of mirrorHtmlPackage, no harvest page is open, and at no point
\* of a run is more than one harvest page open.
C34_HarvestPageClosed ==
  /\ pc \in {"loop", "done"} => harvestPages = {}
  /\ Cardinality(harvestPages) <= 1

\* the retrieval of the chosen candidate has returned a status outside
\* 200..299
NonSuccess == pc = "retrieved" /\ (full.status < 200 \/ full.status > 299)

\* C35 as stated: a retrieval that returns a non-success status has
\* invoked downloadFull exactly once.
C35_RetrievedOnce == NonSuccess => rt.calls = 1

\* C35 amended: a non-success status is returned as a failure result
\* without data, by the invocation that follows the ones that threw, and
\* ends withRetries; the next step of the pipeline counts the resource
\* Failed at Retrieve, with nothing written and no candidate probed or
\* retrieved after it.
C35_NonSuccessNotRetried ==
  /\ [](NonSuccess =>
          /\ ~full.ok
          /\ full.data = NoBytes
          /\ rt.st = "returned"
          /\ rt.calls = Len(rt.delays) + 1
          /\ written = {})
  /\ [][(NonSuccess /\ pc' # pc) =>
          /\ pc' = "loop"
          /\ outcome' = [counter |-> "failed", stage |-> "retrieve"]
          /\ summary' = Count(summary, "failed")
          /\ fs' = fs
          /\ written' = {}
          /\ probed' = <<>>]_vars

C35_Witness ==
  /\ NonSuccess
  /\ full.status = 404
  /\ rt.calls = 2
  /\ Len(rt.delays) = 1

\* C39 as stated: every path that the visit of a resource writes for the
\* first time did not exist before, so nothing left by an earlier resource
\* or an earlier run is overwritten.
C39_NoArtifactOverwritten ==
  [][\A p \in written' \ written : p \notin fs]_vars

\* C36: once an input URL has been taken the cookies of cookies.json have
\* been handed to the page by exactly one call, made at start-up before
\* the first URL; no later step of the pipeline or of the mirroring makes
\* another call, and none touches cookies.json.
C36_CookiesInjectedOnce ==
  /\ [](idx >= 1 => cookieCalls = <<cookieFile.list>>)
  /\ [][/\ cookieCalls' # cookieCalls =>
             /\ pc = "start" /\ idx = 0 /\ cookieCalls = <<>>
             /\ cookieCalls' = <<cookieFile.list>>
        /\ cookieFile' = cookieFile]_vars

C36_Witness ==
  /\ pc = "done"
  /\ idx = 2
  /\ summary.savedPackages >= 1
  /\ cookieCalls = <<(<<SessionCookie>>)>>

\* cookies.json passes every check of the sanitizer: a JSON array of
\* cookies that each have a name, a value and a domain, one of them named
\* MoodleSession
Sanitizable(file) ==
  /\ file.kind = "array"
  /\ \A i \in 1..Len(file.list) :
       /\ file.list[i].t = "object"
       /\ \A key \in {"name", "value", "domain"} :
            key \in DOMAIN file.list[i].o /\ ~Falsy(file.list[i].o[key])
  /\ \E i \in 1..Len(file.list) : file.list[i].o["name"] = Str("MoodleSession")

\* C40: when cookies.json fails a check the sanitizer ends with the file
\* and the backup as they were; when it succeeds the file holds one cookie
\* per original cookie, each with keys among name, value, domain, path,
\* secure and httpOnly only, the backup holds the original, and the
\* backup held the original already when the file was overwritten.
C40_SanitizerSafe ==
  /\ []((pc # "s-start" /\ ~Sanitizable(args.file)) =>
          /\ pc \in {"s-exit", "s-typeerror"}
          /\ cookieFile = args.file
          /\ backupFile = args.backup)
  /\ [](pc = "s-done" =>
          /\ Sanitizable(args.file)
          /\ cookieFile.kind = "array"
          /\ Len(cookieFile.list) = Len(args.file.list)
          /\ \A i \in 1..Len(cookieFile.list) :
               /\ DOMAIN cookieFile.list[i].o \subseteq
                    {"name", "value", "domain", "path", "secure", "httpOnly"}
               /\ \A key \in {"name", "value", "domain"} :
                    cookieFile.list[i].o[key] = args.file.list[i].o[key]
          /\ backupFile = args.file)
  /\ [][cookieFile' # cookieFile => backupFile = args.file /\ backupFile' = backupFile]_vars

C40_Witness ==
  /\ pc = "s-done"
  /\ args.file = JsonArray(<<ExportedSession, ExportedOdd>>)
  /\ args.backup = JsonArray(<<ExportedBare>>)
  /\ backupFile = args.file
  /\ cookieFile.list[1].o = [name |-> Str("MoodleSession"), value |-> Str("s3cr3t"),
                             domain |-> Str("h"), path |-> Str("/moodle"),
                             secure |-> Bool("false"), httpOnly |-> Bool("true")]
  /\ cookieFile.list[2].o = [name |-> Str("MoodleSession"), value |-> Str("t0k3n"),
                             domain |-> Str("h"), path |-> Str("/"), secure |-> Bool("true")]

====
